---------------------------- MODULE Spec2Model ----------------------------
(***************************************************************************)
(* Model of the deterministic analytics engine of physiological_insights:  *)
(* the strain scorer (strain.py), the readiness tier assigner              *)
(* (readiness.py) with the daily summaries of the packet                   *)
(* (context_packet.py), the sensor sleep detector (sleep.py), the sleep    *)
(* session analyser (sleep_sessions.py), the pattern detector              *)
(* (patterns.py), the activity classifier (activity.py), the parsing of    *)
(* the analyst's response (analyst.py), the stages of main (cli.py), the   *)
(* null stripping, the alerts and the agent state of the agent payload     *)
(* (agent_payload.py), the exercise sessions (activity.py) and the peak    *)
(* window of the circadian fit (circadian.py); and of the messaging agent  *)
(* of hackathon: the insights cache and the conversation with the model    *)
(* (brain.py), the message store (database.py) and the loop that watches   *)
(* incoming messages (agent.py).                                           *)
(*                                                                         *)
(* The analysers are pure functions of their input frames.  Each one has   *)
(* its own specification: Init draws the input frame from a bounded set    *)
(* and the action applies the analyser as its code computes it.            *)
(*                                                                         *)
(* Numbers: scores of the Borg scale are kept in tenths (210 = 21.0), the  *)
(* precision the code rounds them to.  The natural logarithm is computed   *)
(* in fixed point (LN_SCALE = 10^4).  An optional value (None, NaN) is a   *)
(* sequence of length 0 or 1.                                              *)
(***************************************************************************)
EXTENDS Integers, Sequences, FiniteSets, TLC

VARIABLES
    pc,              \* the position in the run: "start", ..., "done"
    day_df,          \* strain.py: the date groups of the wear frame
    daily_strain,    \* strain.py: analyse_strain()["daily_strain"]
    tier_args,       \* readiness.py: the arguments of a _classify_tier call
    tier,            \* readiness.py: the tier _classify_tier returns for them
    tier_no_sr,      \* readiness.py: the tier it returns without the self-report
    performance,     \* cli.py: results["performance"]
    hrv,             \* cli.py: results["hrv"]
    readiness,       \* cli.py: results["readiness"]
    daily_summaries, \* context_packet.py: packet["daily_summaries"]
    wear,            \* sleep.py: the wear-on epochs, sorted by time
    nights,          \* sleep.py: analyse_sleep()["nights"]
    sleep_df,        \* sleep_sessions.py: the rows of the session log
    session_type,    \* sleep_sessions.py: df["session_type"]
    primary_df,      \* sleep_sessions.py: the primary sessions, in log order
    sleep_debt,      \* sleep_sessions.py: _analyse_sleep_debt(primary_df)
    recovery,        \* sleep_sessions.py: _analyse_recovery(primary_df)
    results,         \* patterns.py: the results detect_patterns reads
    patterns,        \* patterns.py: the list detect_patterns returns
    activity_df,     \* activity.py: the wear-on epochs analyse_activity classifies
    activity_level,  \* activity.py: wear["activity_level"]
    raw,             \* analyst.py: the text the LLM call returned
    briefing,        \* analyst.py: what generate_briefing returns
    args,            \* cli.py: the parsed arguments
    frames,          \* cli.py: tests_df, sleep_df and metrics_df
    main_results,    \* cli.py: the results dict of main
    packet,          \* cli.py: build_context_packet(...)
    payload,         \* cli.py: build_agent_payload(...)
    files,           \* cli.py: the documents main has written
    llm,             \* analyst.py: whether the provider call returned or raised
    raised,          \* cli.py: the exception that ended main
    first_run,       \* cli.py: the documents of an earlier run of main
    unstripped,      \* agent_payload.py: the payload dict of build_agent_payload
    stripped,        \* agent_payload.py: _strip_nulls(payload)
    popt,            \* the parameters curve_fit returns (circadian.py)
    circadian,       \* the result of analyse_circadian on a successful fit
    insights_file,   \* brain.py: data/insights.json, its content and its mtime, if it exists
    insights_cache,  \* brain.py: _insights_cache
    fs_clock,        \* brain.py: the time of the file system
    loaded,          \* brain.py: what the last call of _load_insights returned
    stream,          \* agent.py: the lines of imsg watch --json
    line_no,         \* agent.py: the number of lines the loop has taken
    sent,            \* agent.py: the replies passed to imsg send, with the line answered
    outcome,         \* agent.py: what the loop did with each line taken
    db_messages,     \* database.py: the rows of the table messages, in the order inserted
    db_profiles,     \* database.py: the phones of the table user_profiles
    call,            \* brain.py: the get_response call in progress or just ended
    n_calls,         \* brain.py: the number of get_response calls made
    exercise_sessions,  \* activity.py: _detect_exercise_sessions(wear, hr_col)
    alert_inputs,    \* agent_payload.py: what _build_alerts reads
    built_alerts     \* agent_payload.py: the list _build_alerts returns

vars == <<pc, day_df, daily_strain, tier_args, tier, tier_no_sr, performance,
          hrv, readiness, daily_summaries, wear, nights, sleep_df,
          session_type, primary_df, sleep_debt, recovery, results, patterns,
          activity_df, activity_level, raw, briefing, args, frames,
          main_results, packet, payload, files, llm, raised, first_run,
          unstripped, stripped, popt, circadian, insights_file,
          insights_cache, fs_clock, loaded, stream, line_no, sent, outcome,
          db_messages, db_profiles, call, n_calls, exercise_sessions,
          alert_inputs, built_alerts>>

StrainVars == <<day_df, daily_strain>>
ClassifyVars == <<tier_args, tier, tier_no_sr>>
ReadinessVars == <<performance, hrv, readiness, daily_summaries>>
SleepVars == <<wear, nights>>
SessionVars == <<sleep_df, session_type>>
TrendVars == <<primary_df, sleep_debt, recovery>>
PatternVars == <<results, patterns>>
ActivityVars == <<activity_df, activity_level>>
AnalystVars == <<raw, briefing>>
PipelineVars ==
    <<args, frames, main_results, packet, payload, files, llm, raised, first_run>>
StripVars == <<unstripped, stripped>>
CircadianVars == <<popt, circadian>>
InsightsVars == <<insights_file, insights_cache, fs_clock, loaded>>
WatchVars == <<stream, line_no, sent, outcome>>
ChatVars == <<db_messages, db_profiles, call, n_calls>>
ExerciseVars == <<exercise_sessions>>
AlertsVars == <<alert_inputs, built_alerts>>

\* The variables an analyser does not touch
NotStrain ==
    <<ClassifyVars, ReadinessVars, SleepVars, SessionVars, TrendVars,
      PatternVars, ActivityVars, AnalystVars, PipelineVars, StripVars,
      CircadianVars, InsightsVars, WatchVars, ChatVars, ExerciseVars,
      AlertsVars>>
NotClassify ==
    <<StrainVars, ReadinessVars, SleepVars, SessionVars, TrendVars,
      PatternVars, ActivityVars, AnalystVars, PipelineVars, StripVars,
      CircadianVars, InsightsVars, WatchVars, ChatVars, ExerciseVars,
      AlertsVars>>
NotReadiness ==
    <<StrainVars, ClassifyVars, SleepVars, SessionVars, TrendVars,
      PatternVars, ActivityVars, AnalystVars, PipelineVars, StripVars,
      CircadianVars, InsightsVars, WatchVars, ChatVars, ExerciseVars,
      AlertsVars>>
NotSleep ==
    <<StrainVars, ClassifyVars, ReadinessVars, SessionVars, TrendVars,
      PatternVars, ActivityVars, AnalystVars, PipelineVars, StripVars,
      CircadianVars, InsightsVars, WatchVars, ChatVars, ExerciseVars,
      AlertsVars>>
NotSession ==
    <<StrainVars, ClassifyVars, ReadinessVars, SleepVars, TrendVars,
      PatternVars, ActivityVars, AnalystVars, PipelineVars, StripVars,
      CircadianVars, InsightsVars, WatchVars, ChatVars, ExerciseVars,
      AlertsVars>>
NotTrend ==
    <<StrainVars, ClassifyVars, ReadinessVars, SleepVars, SessionVars,
      PatternVars, ActivityVars, AnalystVars, PipelineVars, StripVars,
      CircadianVars, InsightsVars, WatchVars, ChatVars, ExerciseVars,
      AlertsVars>>
NotPatterns ==
    <<StrainVars, ClassifyVars, ReadinessVars, SleepVars, SessionVars,
      TrendVars, ActivityVars, AnalystVars, PipelineVars, StripVars,
      CircadianVars, InsightsVars, WatchVars, ChatVars, ExerciseVars,
      AlertsVars>>
NotActivity ==
    <<StrainVars, ClassifyVars, ReadinessVars, SleepVars, SessionVars,
      TrendVars, PatternVars, AnalystVars, PipelineVars, StripVars,
      CircadianVars, InsightsVars, WatchVars, ChatVars, ExerciseVars,
      AlertsVars>>
NotAnalyst ==
    <<StrainVars, ClassifyVars, ReadinessVars, SleepVars, SessionVars,
      TrendVars, PatternVars, ActivityVars, PipelineVars, StripVars,
      CircadianVars, InsightsVars, WatchVars, ChatVars, ExerciseVars,
      AlertsVars>>
NotPipeline ==
    <<StrainVars, ClassifyVars, ReadinessVars, SleepVars, SessionVars,
      TrendVars, PatternVars, ActivityVars, StripVars, CircadianVars,
      InsightsVars, WatchVars, ChatVars, ExerciseVars, AlertsVars>>
NotStrip ==
    <<StrainVars, ClassifyVars, ReadinessVars, SleepVars, SessionVars,
      TrendVars, PatternVars, ActivityVars, AnalystVars, PipelineVars,
      CircadianVars, InsightsVars, WatchVars, ChatVars, ExerciseVars,
      AlertsVars>>
NotCircadian ==
    <<StrainVars, ClassifyVars, ReadinessVars, SleepVars, SessionVars,
      TrendVars, PatternVars, ActivityVars, AnalystVars, PipelineVars,
      StripVars, InsightsVars, WatchVars, ChatVars, ExerciseVars, AlertsVars>>
NotInsights ==
    <<StrainVars, ClassifyVars, ReadinessVars, SleepVars, SessionVars,
      TrendVars, PatternVars, ActivityVars, AnalystVars, PipelineVars,
      StripVars, CircadianVars, WatchVars, ChatVars, ExerciseVars,
      AlertsVars>>
NotWatch ==
    <<StrainVars, ClassifyVars, ReadinessVars, SleepVars, SessionVars,
      TrendVars, PatternVars, ActivityVars, AnalystVars, PipelineVars,
      StripVars, CircadianVars, InsightsVars, ChatVars, ExerciseVars,
      AlertsVars>>
NotChat ==
    <<StrainVars, ClassifyVars, ReadinessVars, SleepVars, SessionVars,
      TrendVars, PatternVars, ActivityVars, AnalystVars, PipelineVars,
      StripVars, CircadianVars, InsightsVars, WatchVars, ExerciseVars,
      AlertsVars>>

\* A run of one analyser leaves the frames and results of the others empty.
StrainIdle == day_df = <<>> /\ daily_strain = <<>>
ClassifyIdle == tier_args = <<>> /\ tier = <<>> /\ tier_no_sr = <<>>
ReadinessIdle ==
    performance = <<>> /\ hrv = <<>> /\ readiness = <<>> /\ daily_summaries = <<>>
SleepIdle == wear = <<>> /\ nights = <<>>
SessionIdle == sleep_df = <<>> /\ session_type = <<>>
TrendIdle == primary_df = <<>> /\ sleep_debt = <<>> /\ recovery = <<>>
PatternIdle == results = <<>> /\ patterns = <<>>
ActivityIdle == activity_df = <<>> /\ activity_level = <<>>
AnalystIdle == raw = <<>> /\ briefing = <<>>
PipelineIdle ==
    /\ args = <<>> /\ frames = <<>> /\ main_results = <<>>
    /\ packet = <<>> /\ payload = <<>> /\ files = <<>>
    /\ llm = <<>> /\ raised = <<>> /\ first_run = <<>>
StripIdle == unstripped = <<>> /\ stripped = <<>>
CircadianIdle == popt = <<>> /\ circadian = <<>>
InsightsIdle ==
    insights_file = <<>> /\ insights_cache = <<>> /\ fs_clock = <<>> /\ loaded = <<>>
WatchIdle == stream = <<>> /\ line_no = <<>> /\ sent = <<>> /\ outcome = <<>>
ChatIdle ==
    db_messages = <<>> /\ db_profiles = <<>> /\ call = <<>> /\ n_calls = <<>>
ExerciseIdle == exercise_sessions = <<>>
AlertsIdle == alert_inputs = <<>> /\ built_alerts = <<>>

\* An optional value: None (or NaN) is <<>>, a value v is <<v>>.
None == <<>>
Some(v) == <<v>>

Min(a, b) == IF a <= b THEN a ELSE b
Max(a, b) == IF a >= b THEN a ELSE b

-----------------------------------------------------------------------------
(* strain.py *)

_STRAIN_CAP == 210      \* 21.0, in tenths
_CV_DIVISOR == 80
_CV_SCALE == 55         \* 5.5, in tenths
_MUSC_DIVISOR == 5000
_MUSC_SCALE == 40       \* 4.0, in tenths

\* _ZONE_WEIGHTS[z - 1] for z in 1..5, doubled halves: zone_counts * 0.5 * w
_ZONE_WEIGHTS == <<0, 1, 2, 4, 8>>

LN_SCALE == 10000
LN2 == 6931             \* ln(2) * LN_SCALE

RECURSIVE Halvings(_, _)
Halvings(num, den) == IF num >= 2 * den THEN 1 + Halvings(num, 2 * den) ELSE 0

RECURSIVE Pow2(_)
Pow2(k) == IF k = 0 THEN 1 ELSE 2 * Pow2(k - 1)

\* math.log(num / den) * LN_SCALE for num >= den > 0:
\* ln(x) = k ln 2 + 2 atanh((m - 1) / (m + 1)), x = 2^k m, 1 <= m < 2.
math_log(num, den) ==
    LET k  == Halvings(num, den)
        d  == den * Pow2(k)
        f  == (num \div 100000) + 1
        n1 == num \div f
        d1 == d \div f
        z  == ((n1 - d1) * LN_SCALE) \div (n1 + d1)
        z2 == (z * z) \div LN_SCALE
        z3 == (z * z2) \div LN_SCALE
        z5 == (z3 * z2) \div LN_SCALE
        z7 == (z5 * z2) \div LN_SCALE
        z9 == (z7 * z2) \div LN_SCALE
    IN  k * LN2 + 2 * (z + z3 \div 3 + z5 \div 5 + z7 \div 7 + z9 \div 9)

\* round(scale * log(1 + raw / divisor), 1) in tenths; rawNum / rawDen = raw
BorgScore(rawNum, rawDen, divisor, scale) ==
    (scale * math_log(rawNum + divisor * rawDen, divisor * rawDen)
        + LN_SCALE \div 2) \div LN_SCALE

\* A faulty _raw_to_borg: the cap min(_STRAIN_CAP, .) left out.
raw_to_borg_uncapped(rawNum, rawDen, divisor, scale) ==
    IF rawNum <= 0 THEN 0 ELSE BorgScore(rawNum, rawDen, divisor, scale)

_raw_to_borg(rawNum, rawDen, divisor, scale) ==
    IF rawNum <= 0
    THEN 0
    ELSE Min(_STRAIN_CAP, BorgScore(rawNum, rawDen, divisor, scale))

\* round(x, 1) of x = n / 100 given in hundredths, result in tenths.  A tie
\* (n ending in 5) is decided by the binary value of the float sum: either
\* neighbour can come out.
Round1(n) ==
    IF n % 10 = 5 THEN {n \div 10, n \div 10 + 1} ELSE {(n + 5) \div 10}

_strain_label(score) ==
    IF score < 40 THEN "minimal"
    ELSE IF score < 80 THEN "light"
    ELSE IF score < 140 THEN "moderate"
    ELSE IF score < 180 THEN "high"
    ELSE "overreaching"

\* Twice raw_cv: sum of zone_counts.get(z, 0) * 0.5 * _ZONE_WEIGHTS[z - 1]
RawCv2(zone_counts) ==
    zone_counts[1] * _ZONE_WEIGHTS[1] + zone_counts[2] * _ZONE_WEIGHTS[2]
    + zone_counts[3] * _ZONE_WEIGHTS[3] + zone_counts[4] * _ZONE_WEIGHTS[4]
    + zone_counts[5] * _ZONE_WEIGHTS[5]

\* The records the body of the loop over the date groups can append.
DayStrain(df) ==
    LET cv_strain == _raw_to_borg(RawCv2(df.zone_counts), 2, _CV_DIVISOR, _CV_SCALE)
        moderate_any == \E z \in 3..5 : df.zone_counts[z] > 0
        muscular_energy == IF moderate_any THEN df.acc_energy ELSE 0
        muscular_strain == _raw_to_borg(muscular_energy, 1, _MUSC_DIVISOR, _MUSC_SCALE)
    IN  { [ strain_score          |-> Min(_STRAIN_CAP, combined),
            cardiovascular_strain |-> cv_strain,
            muscular_strain       |-> muscular_strain,
            strain_level          |-> _strain_label(Min(_STRAIN_CAP, combined)),
            sleep_need_adjustment_min |->
                IF Min(_STRAIN_CAP, combined) >= 180 THEN 45
                ELSE IF Min(_STRAIN_CAP, combined) >= 140 THEN 30
                ELSE IF Min(_STRAIN_CAP, combined) >= 100 THEN 15 ELSE 0 ]
          : combined \in Round1(cv_strain * 7 + muscular_strain * 3) }

\* Epochs per heart-rate zone of a day: none, a minute, an hour, most of a day.
ZoneEpochs == {0, 2, 120, 2400}
\* Summed accelerometer energy of the zone >= 3 epochs of a day.
AccEnergy == {-40, 0, 900, 400000, 2000000}

DayFrames ==
    [ zone_counts : [1..5 -> ZoneEpochs], acc_energy : AccEnergy ]

InitStrain ==
    /\ pc = "start"
    /\ day_df \in {<<>>} \cup {<<g>> : g \in DayFrames}
    /\ daily_strain = <<>>
    /\ ClassifyIdle /\ ReadinessIdle /\ SleepIdle /\ SessionIdle /\ TrendIdle
       /\ PatternIdle /\ ActivityIdle /\ AnalystIdle /\ PipelineIdle
       /\ StripIdle /\ CircadianIdle /\ InsightsIdle /\ WatchIdle /\ ChatIdle
       /\ ExerciseIdle /\ AlertsIdle

\* analyse_strain: an empty frame gives no record, a date group gives one.
analyse_strain ==
    /\ pc = "start"
    /\ pc' = "done"
    /\ IF day_df = <<>>
       THEN daily_strain' = <<>>
       ELSE \E r \in DayStrain(day_df[1]) : daily_strain' = <<r>>
    /\ UNCHANGED <<day_df, NotStrain>>

NextStrain == analyse_strain

SpecStrain == InitStrain /\ [][NextStrain]_vars

\* C1: every daily record's strain_score, cardiovascular_strain and
\* muscular_strain lie in [0, 21], whatever the epochs per zone and the
\* summed accelerometer energy.
StrainWithinBorgScale ==
    pc = "done" =>
        \A i \in 1..Len(daily_strain) :
            /\ daily_strain[i].strain_score \in 0.._STRAIN_CAP
            /\ daily_strain[i].cardiovascular_strain \in 0.._STRAIN_CAP
            /\ daily_strain[i].muscular_strain \in 0.._STRAIN_CAP

\* A day whose raw cardiovascular and muscular loads both exceed the cap.
StrainCapReached ==
    /\ pc = "done" /\ Len(daily_strain) = 1
    /\ BorgScore(RawCv2(day_df[1].zone_counts), 2, _CV_DIVISOR, _CV_SCALE) > _STRAIN_CAP
    /\ BorgScore(day_df[1].acc_energy, 1, _MUSC_DIVISOR, _MUSC_SCALE) > _STRAIN_CAP
    /\ daily_strain[1].strain_score = _STRAIN_CAP

-----------------------------------------------------------------------------
(* readiness.py *)

_TIERS == <<
    [name |-> "Peak",     color |-> "green",  rmssd_min |-> 90, ready_min |-> 175],
    [name |-> "Good",     color |-> "blue",   rmssd_min |-> 75, ready_min |-> 155],
    [name |-> "Moderate", color |-> "yellow", rmssd_min |-> 55, ready_min |-> 140],
    [name |-> "Low",      color |-> "orange", rmssd_min |-> 40, ready_min |-> 130],
    [name |-> "Recovery", color |-> "red",    rmssd_min |-> 0,  ready_min |-> 0] >>

TierNames == {_TIERS[i].name : i \in 1..Len(_TIERS)}

\* tier_order.index(name)
TierIndex(name) == CHOOSE i \in 1..Len(_TIERS) : _TIERS[i].name = name

\* The self-report cap.  A NaN daily mean compares False with every
\* threshold, as None does: both are the absent value here.
SrCap(stress, sleepiness) ==
    IF stress # None /\ sleepiness # None
    THEN IF stress[1] > 7 /\ sleepiness[1] > 7 THEN Some("Recovery")
         ELSE IF stress[1] > 5 /\ sleepiness[1] > 5 THEN Some("Low")
         ELSE None
    ELSE None

\* A faulty TierMatches: the two floors joined by "or".
TierMatchesEither(t, ready_score, rmssd_pct) ==
    IF rmssd_pct # None
    THEN rmssd_pct[1] >= t.rmssd_min \/ ready_score >= t.ready_min
    ELSE ready_score >= t.ready_min

\* The condition of the loop over _TIERS
TierMatches(t, ready_score, rmssd_pct) ==
    IF rmssd_pct # None
    THEN rmssd_pct[1] >= t.rmssd_min /\ ready_score >= t.ready_min
    ELSE ready_score >= t.ready_min

\* for t in _TIERS: ... break, from position i on; "Recovery" if none matches
RECURSIVE ScanTiers(_, _, _)
ScanTiers(i, ready_score, rmssd_pct) ==
    IF i > Len(_TIERS) THEN "Recovery"
    ELSE IF TierMatches(_TIERS[i], ready_score, rmssd_pct) THEN _TIERS[i].name
    ELSE ScanTiers(i + 1, ready_score, rmssd_pct)

\* A faulty ApplyCap: the cap replaces the tier whenever there is one.
ApplyCapAlways(t, sr_cap) ==
    IF sr_cap # None THEN sr_cap[1] ELSE t

\* Apply self-report cap (cannot promote, only demote)
ApplyCap(t, sr_cap) ==
    IF sr_cap # None /\ TierIndex(t) < TierIndex(sr_cap[1]) THEN sr_cap[1] ELSE t

_classify_tier(ready_score, rmssd_pct, stress, sleepiness) ==
    LET sr_cap == SrCap(stress, sleepiness)
        t == IF ready_score = None THEN "Moderate"
             ELSE ScanTiers(1, ready_score[1], rmssd_pct)
    IN  ApplyCap(t, sr_cap)

Optional(S) == {None} \cup {Some(v) : v \in S}

\* Daily Ready means, HRV percentages of the baseline and self-report
\* ratings on and around the floors and thresholds of the code.
ReadyScores == {0, 129, 130, 139, 140, 154, 155, 174, 175, 190}
RmssdPcts == {0, 39, 40, 54, 55, 74, 75, 89, 90, 120}
Ratings == {0, 5, 6, 7, 8, 10}

InitClassify ==
    /\ pc = "start"
    /\ tier_args \in { <<a>> : a \in [ ready_score : Optional(ReadyScores),
                                        rmssd_pct   : Optional(RmssdPcts),
                                        stress      : Optional(Ratings),
                                        sleepiness  : Optional(Ratings) ] }
    /\ tier = <<>> /\ tier_no_sr = <<>>
    /\ StrainIdle /\ ReadinessIdle /\ SleepIdle /\ SessionIdle /\ TrendIdle
       /\ PatternIdle /\ ActivityIdle /\ AnalystIdle /\ PipelineIdle
       /\ StripIdle /\ CircadianIdle /\ InsightsIdle /\ WatchIdle /\ ChatIdle
       /\ ExerciseIdle /\ AlertsIdle

\* One call of _classify_tier, and the call for the same score and HRV
\* without a self-report.
classify_tier ==
    /\ pc = "start"
    /\ pc' = "done"
    /\ LET a == tier_args[1] IN
        /\ tier' = Some(_classify_tier(a.ready_score, a.rmssd_pct, a.stress, a.sleepiness))
        /\ tier_no_sr' = Some(_classify_tier(a.ready_score, a.rmssd_pct, None, None))
    /\ UNCHANGED <<tier_args, NotClassify>>

NextClassify == classify_tier

SpecClassify == InitClassify /\ [][NextClassify]_vars

FloorsMet(i, a) ==
    /\ a.ready_score[1] >= _TIERS[i].ready_min
    /\ a.rmssd_pct # None => a.rmssd_pct[1] >= _TIERS[i].rmssd_min

\* C4: with a ready score and no self-report cap, the tier is the highest
\* one whose Ready-score floor and HRV-% floor are both met; without an HRV
\* percentage, the highest one whose Ready-score floor is met.
HighestTierWithFloorsMet ==
    (pc = "done" /\ tier_args[1].ready_score # None
        /\ SrCap(tier_args[1].stress, tier_args[1].sleepiness) = None)
    => LET a == tier_args[1]
           i == TierIndex(tier[1])
       IN  /\ FloorsMet(i, a)
           /\ \A j \in 1..(i - 1) : ~FloorsMet(j, a)

\* A day whose score meets the Peak floor and whose HRV meets only the
\* Moderate floor: the tier is Moderate.
ScoreFloorAboveHrvFloor ==
    /\ pc = "done"
    /\ tier_args[1].ready_score = Some(175) /\ tier_args[1].rmssd_pct = Some(55)
    /\ tier_args[1].stress = None
    /\ tier[1] = "Moderate"

-----------------------------------------------------------------------------
(* performance.py, readiness.py: assign_readiness_tiers,                    *)
(* context_packet.py: _build_daily_summaries                                *)

MaxDays == 2

\* The tests of one date: the test types taken, the mean Ready score when a
\* READY test was taken, and the day's mean self-report.
DayTests ==
    { d \in [ types : SUBSET {"READY", "AGILITY", "FOCUS"},
              mean : {0, 135, 150, 180},
              stress : Optional({8}), sleepiness : Optional({8}) ] :
        /\ "READY" \notin d.types => d.mean = 0
        /\ d.types = {} => (d.stress = None /\ d.sleepiness = None)
        /\ d.stress = None <=> d.sleepiness = None }

\* The dates of s in increasing order: _daily_agg sorts by date.
RECURSIVE SortedDates(_)
SortedDates(s) ==
    IF s = {} THEN <<>>
    ELSE LET d == CHOOSE x \in s : \A y \in s : x <= y
         IN  <<d>> \o SortedDates(s \ {d})

\* analyse_performance: the daily records of a tests frame (date -> tests)
PerformanceOf(tests) ==
    LET dated(ttype) == SortedDates({d \in DOMAIN tests : ttype \in tests[d].types})
        any == SortedDates({d \in DOMAIN tests : tests[d].types # {}})
    IN  [ daily_ready |->
              [i \in 1..Len(dated("READY")) |->
                  [date |-> dated("READY")[i], mean |-> tests[dated("READY")[i]].mean]],
          daily_agility |->
              [i \in 1..Len(dated("AGILITY")) |-> [date |-> dated("AGILITY")[i]]],
          daily_focus |->
              [i \in 1..Len(dated("FOCUS")) |-> [date |-> dated("FOCUS")[i]]],
          daily_self_report |->
              [i \in 1..Len(any) |->
                  [date |-> any[i], stress |-> tests[any[i]].stress,
                   sleepiness |-> tests[any[i]].sleepiness]] ]

\* for sr in daily_sr: if sr date == date: ...; break
RECURSIVE SelfReportOf(_, _, _)
SelfReportOf(daily_sr, date, i) ==
    IF i > Len(daily_sr) THEN [stress |-> None, sleepiness |-> None]
    ELSE IF daily_sr[i].date = date
         THEN [stress |-> daily_sr[i].stress, sleepiness |-> daily_sr[i].sleepiness]
         ELSE SelfReportOf(daily_sr, date, i + 1)

\* assign_readiness_tiers(results)
assign_readiness_tiers(perf, rmssd_pct) ==
    LET daily_ready == perf.daily_ready
        dates == {daily_ready[i].date : i \in 1..Len(daily_ready)}
        day(d) == CHOOSE i \in 1..Len(daily_ready) : daily_ready[i].date = d
        tiers_by_date ==
            [d \in dates |->
                LET sr == SelfReportOf(perf.daily_self_report, d, 1)
                    t == _classify_tier(Some(daily_ready[day(d)].mean), rmssd_pct,
                                        sr.stress, sr.sleepiness)
                IN  [tier |-> t,
                     color |-> _TIERS[TierIndex(t)].color,
                     ready_score |-> daily_ready[day(d)].mean]]
    IN  [ tiers_by_date |-> tiers_by_date,
          latest_tier |->
              IF daily_ready # <<>>
              THEN Some(tiers_by_date[daily_ready[Len(daily_ready)].date])
              ELSE None ]

\* tier_info.get("tier", "Unknown") of tier_info = tiers.get(date_str, {})
TierOrUnknown(tiers, date_str) ==
    IF date_str \in DOMAIN tiers THEN tiers[date_str].tier ELSE "Unknown"

\* _build_daily_summaries(tests_df, results)
_build_daily_summaries(perf, tiers) ==
    LET by(rows) == {rows[i].date : i \in 1..Len(rows)}
        all_dates == SortedDates(by(perf.daily_ready) \cup by(perf.daily_agility)
                                 \cup by(perf.daily_focus))
    IN  [i \in 1..Len(all_dates) |->
            [date |-> all_dates[i],
             readiness_tier |-> TierOrUnknown(tiers, all_dates[i]),
             ready_mean |->
                 IF all_dates[i] \in by(perf.daily_ready)
                 THEN Some((CHOOSE r \in {perf.daily_ready[k] : k \in 1..Len(perf.daily_ready)} :
                               r.date = all_dates[i]).mean)
                 ELSE None]]

InitReadiness ==
    /\ pc = "start"
    /\ \/ performance = <<>>
       \/ \E t \in [1..MaxDays -> DayTests] : performance = <<PerformanceOf(t)>>
    /\ \/ hrv = <<>>
       \/ \E p \in Optional({50, 95}) : hrv = <<[rmssd_pct_baseline |-> p]>>
    /\ readiness = <<>> /\ daily_summaries = <<>>
    /\ StrainIdle /\ ClassifyIdle /\ SleepIdle /\ SessionIdle /\ TrendIdle
       /\ PatternIdle /\ ActivityIdle /\ AnalystIdle /\ PipelineIdle
       /\ StripIdle /\ CircadianIdle /\ InsightsIdle /\ WatchIdle /\ ChatIdle
       /\ ExerciseIdle /\ AlertsIdle

\* cli.main: if tests_df is not None: results["readiness"] = assign_readiness_tiers(results)
AssignReadinessTiers ==
    /\ pc = "start"
    /\ pc' = "readiness"
    /\ readiness' =
           IF performance = <<>> THEN <<>>
           ELSE <<assign_readiness_tiers(performance[1],
                      IF hrv = <<>> THEN None ELSE hrv[1].rmssd_pct_baseline)>>
    /\ UNCHANGED <<performance, hrv, daily_summaries, NotReadiness>>

\* cli.main: build_context_packet -> _build_daily_summaries
BuildDailySummaries ==
    /\ pc = "readiness"
    /\ pc' = "done"
    /\ daily_summaries' =
           IF performance = <<>> THEN <<>>
           ELSE _build_daily_summaries(performance[1],
                    IF readiness = <<>> THEN <<>> ELSE readiness[1].tiers_by_date)
    /\ UNCHANGED <<performance, hrv, readiness, NotReadiness>>

NextReadiness == AssignReadinessTiers \/ BuildDailySummaries

SpecReadiness == InitReadiness /\ [][NextReadiness]_vars

\* C2: every readiness tier the pipeline reports for a date is one of Peak,
\* Good, Moderate, Low, Recovery: each entry of tiers_by_date, latest_tier,
\* and the readiness_tier of every daily summary of the packet (dates with
\* Agility or Focus tests but no Ready test included).
ReportedTiersAreDefined ==
    /\ readiness # <<>> =>
        /\ \A d \in DOMAIN readiness[1].tiers_by_date :
               readiness[1].tiers_by_date[d].tier \in TierNames
        /\ readiness[1].latest_tier # None =>
               readiness[1].latest_tier[1].tier \in TierNames
    /\ \A i \in 1..Len(daily_summaries) :
           daily_summaries[i].readiness_tier \in TierNames

-----------------------------------------------------------------------------
(* sleep.py *)

MaxEpochs == 8

\* datetime_et of an epoch is kept in minutes since 18:00 local of the first
\* day, which is datetime_et - 18 h: the night of an epoch and its hour of day.
NightDate(t) == t \div 1440
HourOfDay(t) == ((t + 1080) \div 60) % 24

\* The smallest and the largest element of a non-empty set of row indices
First(S) == CHOOSE i \in S : \A j \in S : i <= j
Last(S) == CHOOSE i \in S : \A j \in S : i >= j

\* The elements of a set of row indices in increasing order: wake_candidates.index
RECURSIVE Ascending(_)
Ascending(S) == IF S = {} THEN <<>> ELSE <<First(S)>> \o Ascending(S \ {First(S)})

\* The rows of the night's sleep window (9pm-3am local)
SleepWindow(df, night) ==
    {i \in night : HourOfDay(df[i].datetime_et) >= 21 \/ HourOfDay(df[i].datetime_et) <= 3}

\* onset_candidates, before the fallback: HR < 65 and, when the night has an
\* RMSSD reading, RMSSD > 70
OnsetCandidates(df, night) ==
    LET rmssd_available == \E i \in night : df[i].cardio_RMSSD_ms # None
    IN  {i \in SleepWindow(df, night) :
            /\ df[i].heart_rate_mean < 65
            /\ rmssd_available =>
                  (df[i].cardio_RMSSD_ms # None /\ df[i].cardio_RMSSD_ms[1] > 70)}

\* onset_candidates after the fallback to HR < 70
OnsetOrFallback(df, night) ==
    IF OnsetCandidates(df, night) # {}
    THEN OnsetCandidates(df, night)
    ELSE {i \in SleepWindow(df, night) : df[i].heart_rate_mean < 70}

\* for i in range(1, len(wake_idx)): the loop that looks for 5 consecutive
\* wake rows; i is 1-based here, offset_idx is the value of sleep_offset_idx
RECURSIVE WakeScan(_, _, _, _)
WakeScan(wake_idx, i, consecutive, offset_idx) ==
    IF i > Len(wake_idx) THEN offset_idx
    ELSE IF wake_idx[i] = wake_idx[i - 1] + 1
         THEN IF consecutive + 1 >= 5
              THEN wake_idx[i - (consecutive + 1) + 1]
              ELSE WakeScan(wake_idx, i + 1, consecutive + 1, offset_idx)
         ELSE WakeScan(wake_idx, i + 1, 1, offset_idx)

\* The row of the sleep offset of a night whose sleep onset is at row onset
SleepOffsetIdx(df, night, onset) ==
    LET post_onset == {i \in night : df[i].datetime_et >= df[onset].datetime_et}
        wake_candidates == {i \in post_onset : df[i].heart_rate_mean >= 70}
    IN  IF wake_candidates # {}
        THEN WakeScan(Ascending(wake_candidates), 2, 1, First(wake_candidates))
        ELSE Last(post_onset)

\* A faulty KeepNight: every night with an onset is reported.
KeepAnyNight(duration_min) == TRUE

\* if duration_min < 60: continue
KeepNight(duration_min) == duration_min >= 60

\* The body of the loop over the nights: no result or one
NightResult(df, n) ==
    LET night == {i \in 1..Len(df) : NightDate(df[i].datetime_et) = n}
        cands == OnsetOrFallback(df, night)
        onset == First(cands)
        offset == SleepOffsetIdx(df, night, onset)
        duration_min == df[offset].datetime_et - df[onset].datetime_et
    IN  IF SleepWindow(df, night) = {} \/ cands = {} THEN <<>>
        ELSE IF ~KeepNight(duration_min) THEN <<>>
        ELSE << [night_date   |-> n,
                 sleep_onset  |-> df[onset].datetime_et,
                 sleep_offset |-> df[offset].datetime_et,
                 duration_min |-> duration_min] >>

\* for night_date, night_df in wear.groupby("night_date"), from night n on
RECURSIVE NightsFrom(_, _)
NightsFrom(df, n) ==
    IF \A i \in 1..Len(df) : NightDate(df[i].datetime_et) < n THEN <<>>
    ELSE NightResult(df, n) \o NightsFrom(df, n + 1)

analyse_sleep(df) == NightsFrom(df, 0)

\* Heart rates below the onset threshold, between the two onset thresholds
\* and at the wake threshold or above
HeartRates == {60, 67, 75}
\* The time of the first epoch and the step between epochs, in minutes:
\* 20:30 by half hours, 23:00 by 5 minutes, 23:00 by hours, 21:00 by 5 hours
\* (a frame of two nights)
Clocks == {<<150, 30>>, <<300, 5>>, <<300, 60>>, <<180, 300>>}
\* RMSSD of the epochs of a frame: not recorded, below or above the threshold
Rmssds == {None, Some(60), Some(80)}

\* The frame of n epochs on clock c with heart rates h and RMSSD r
WearFrame(n, c, h, r) ==
    [i \in 1..n |-> [datetime_et     |-> c[1] + (i - 1) * c[2],
                     heart_rate_mean |-> h[i],
                     cardio_RMSSD_ms |-> r]]

InitSleep ==
    /\ pc = "start"
    /\ \E n \in 0..MaxEpochs, c \in Clocks, r \in Rmssds :
           \E h \in [1..n -> HeartRates] : wear = WearFrame(n, c, h, r)
    /\ nights = <<>>
    /\ StrainIdle /\ ClassifyIdle /\ ReadinessIdle /\ SessionIdle /\ TrendIdle
       /\ PatternIdle /\ ActivityIdle /\ AnalystIdle /\ PipelineIdle
       /\ StripIdle /\ CircadianIdle /\ InsightsIdle /\ WatchIdle /\ ChatIdle
       /\ ExerciseIdle /\ AlertsIdle

AnalyseSleep ==
    /\ pc = "start"
    /\ pc' = "done"
    /\ nights' = analyse_sleep(wear)
    /\ UNCHANGED <<wear, NotSleep>>

NextSleep == AnalyseSleep

SpecSleep == InitSleep /\ [][NextSleep]_vars

\* The rows of night n, and the row whose time is t
NightRows(n) == {i \in 1..Len(wear) : NightDate(wear[i].datetime_et) = n}
RowAt(t) == CHOOSE i \in 1..Len(wear) : wear[i].datetime_et = t

\* Row i starts a run of at least 5 consecutive rows with HR >= 70
StartsSustainedWake(i) ==
    \A k \in 0..4 : /\ i + k \in NightRows(NightDate(wear[i].datetime_et))
                    /\ wear[i + k].heart_rate_mean >= 70

\* C5: the sleep offset of a night is the first epoch of the earliest run of
\* at least 5 consecutive epochs with HR >= 70 at or after onset; if there is
\* no such run (isolated or shorter runs of HR >= 70 included), the offset is
\* the last available epoch of that night.
OffsetIsSustainedWakeOrLastEpoch ==
    pc = "done" =>
        \A k \in 1..Len(nights) :
            LET onset == RowAt(nights[k].sleep_onset)
                post == {i \in NightRows(nights[k].night_date) : i >= onset}
                runs == {i \in post : StartsSustainedWake(i)}
            IN  nights[k].sleep_offset =
                    IF runs # {} THEN wear[First(runs)].datetime_et
                    ELSE wear[Last(post)].datetime_et

\* C6: every reported night has duration_min >= 60, the offset minus the
\* onset; a night with no onset candidate in the sleep window, or whose
\* detected duration is under 60 minutes, is absent from the nights list.
ReportedNightsLastAnHour ==
    pc = "done" =>
        /\ \A k \in 1..Len(nights) :
               /\ nights[k].duration_min >= 60
               /\ nights[k].duration_min = nights[k].sleep_offset - nights[k].sleep_onset
        /\ \A i \in 1..Len(wear) :
               LET n == NightDate(wear[i].datetime_et) IN
               (\A j \in NightRows(n) :
                    ~(/\ HourOfDay(wear[j].datetime_et) \in {21, 22, 23, 0, 1, 2, 3}
                      /\ wear[j].heart_rate_mean < 70))
               => \A k \in 1..Len(nights) : nights[k].night_date # n

\* A night of half-hour epochs from 20:30: the onset is at 21:00 and the
\* sustained wake starts at 21:30, so the night lasts 30 minutes and is
\* dropped; nothing is reported.
ShortNightDropped ==
    /\ pc = "done"
    /\ Len(wear) = 7
    /\ wear[1].datetime_et = 150 /\ wear[2].datetime_et = 180
    /\ wear[2].heart_rate_mean = 60
    /\ \A i \in 3..7 : wear[i].heart_rate_mean = 75
    /\ nights = <<>>

-----------------------------------------------------------------------------
(* sleep_sessions.py: _classify_session_type *)

MaxSessions == 3

\* The rows of the group of night_date d: df.groupby("night_date")
Group(df, d) == {i \in 1..Len(df) : df[i].night_date = d}

\* A faulty LongestIdx: idxmin for idxmax.
ShortestIdx(df, group) ==
    First({i \in group :
              \A j \in group : df[i].total_sleep_time_min <= df[j].total_sleep_time_min})

\* group["total_sleep_time_min"].idxmax(): the first row of the maximum
LongestIdx(df, group) ==
    First({i \in group :
              \A j \in group : df[i].total_sleep_time_min >= df[j].total_sleep_time_min})

\* start_hour.between(10, 17)
NapHour(start_hour) == start_hour >= 10 /\ start_hour <= 17

\* A faulty _classify_session_type: the loop over the night-date groups
\* left out.
classify_by_start_hour(df) ==
    [i \in 1..Len(df) |->
        IF NapHour(df[i].sleep_start_hour) THEN "nap" ELSE "primary"]

_classify_session_type(df) ==
    [i \in 1..Len(df) |->
        LET group == Group(df, df[i].night_date) IN
        IF Cardinality(group) > 1 /\ i # LongestIdx(df, group) THEN "nap"
        ELSE IF NapHour(df[i].sleep_start_hour) THEN "nap"
        ELSE "primary"]

\* Local start hours on both sides of the nap hours, total sleep times under
\* and over 3 hours, and the calendar dates the sessions start on
StartHours == {9, 10, 17, 18}
SleepTimes == {90, 170, 400}
NightDates == {1, 2}

Sessions ==
    [ night_date : NightDates, sleep_start_hour : StartHours,
      total_sleep_time_min : SleepTimes ]

InitSessions ==
    /\ pc = "start"
    /\ \E n \in 0..MaxSessions : \E df \in [1..n -> Sessions] : sleep_df = df
    /\ session_type = <<>>
    /\ StrainIdle /\ ClassifyIdle /\ ReadinessIdle /\ SleepIdle /\ TrendIdle
       /\ PatternIdle /\ ActivityIdle /\ AnalystIdle /\ PipelineIdle
       /\ StripIdle /\ CircadianIdle /\ InsightsIdle /\ WatchIdle /\ ChatIdle
       /\ ExerciseIdle /\ AlertsIdle

\* analyse_sleep_sessions: df["session_type"] = _classify_session_type(df)
ClassifySessionType ==
    /\ pc = "start"
    /\ pc' = "done"
    /\ session_type' = _classify_session_type(sleep_df)
    /\ UNCHANGED <<sleep_df, NotSession>>

NextSessions == ClassifySessionType

SpecSessions == InitSessions /\ [][NextSessions]_vars

\* The sessions that share the night-date key of session i
SameNight(i) == {j \in 1..Len(sleep_df) : sleep_df[j].night_date = sleep_df[i].night_date}

OnePrimaryPerNight ==
    pc = "done" =>
        \A i, j \in 1..Len(sleep_df) :
            (/\ sleep_df[i].night_date = sleep_df[j].night_date
             /\ session_type[i] = "primary" /\ session_type[j] = "primary")
                => i = j

\* Three sessions of one night with the same total sleep time, none at a
\* nap hour: the first is primary, the others are naps.
TiedSessionsOnePrimary ==
    /\ pc = "done"
    /\ Len(sleep_df) = 3
    /\ \A i \in 1..3 : /\ sleep_df[i].night_date = 1
                       /\ sleep_df[i].total_sleep_time_min = 400
                       /\ sleep_df[i].sleep_start_hour \in {9, 18}
    /\ session_type = <<"primary", "nap", "nap">>

\* C8: a session whose total sleep time is under 3 hours is a nap unless it
\* is the only session of its night-date.
ShortSessionsAreNaps ==
    pc = "done" =>
        \A i \in 1..Len(sleep_df) :
            (sleep_df[i].total_sleep_time_min < 180 /\ Cardinality(SameNight(i)) >= 2)
                => session_type[i] = "nap"

-----------------------------------------------------------------------------
(* sleep_sessions.py: _analyse_sleep_debt, _analyse_recovery *)

MaxPrimary == 4
_DEBT_REPAY_RATE == 4

\* df[column].dropna(): the readings of a column, in log order
RECURSIVE DropNa(_)
DropNa(col) ==
    IF col = <<>> THEN <<>>
    ELSE (IF Head(col) = None THEN <<>> ELSE <<Head(col)[1]>>) \o DropNa(Tail(col))

\* A faulty DebtReference: the first of all the readings.
DebtReferenceFirstEver(debts) == debts[1]

\* The reading the latest debt is compared with: last_3.iloc[0] of
\* last_3 = debts.iloc[-3:], debts.iloc[0] with two readings
DebtReference(debts) ==
    IF Len(debts) >= 3 THEN debts[Len(debts) - 2] ELSE debts[1]

\* debt_hours = round(current / 60, 1), in tenths of an hour.  The readings
\* of the model are not halfway between two tenths.
DebtHours(current) == (current * 10 + 30) \div 60

\* A faulty NightsToRepay: the product is cut to a whole number.
NightsToRepayCut(debt_hours) ==
    IF debt_hours > 0 THEN (debt_hours * _DEBT_REPAY_RATE) \div 10 ELSE 0

\* int(round(debt_hours * _DEBT_REPAY_RATE, 0)) if debt_hours > 0 else 0;
\* four times a number of tenths is never halfway between two integers
NightsToRepay(debt_hours) ==
    IF debt_hours > 0 THEN (debt_hours * _DEBT_REPAY_RATE + 5) \div 10 ELSE 0

_analyse_sleep_debt(df) ==
    LET debts == DropNa([i \in 1..Len(df) |-> df[i].sleep_debt_min])
        current == debts[Len(debts)]
    IN  IF df = <<>> \/ debts = <<>>
        THEN [current_debt_min |-> None, current_debt_hours |-> None,
              nights_to_repay |-> None, trend |-> None]
        ELSE [current_debt_min |-> Some(current),
              current_debt_hours |-> Some(DebtHours(current)),
              nights_to_repay |-> Some(NightsToRepay(DebtHours(current))),
              trend |-> Some(IF Len(debts) >= 2 /\ current > DebtReference(debts)
                             THEN "worsening"
                             ELSE IF Len(debts) >= 2 /\ current < DebtReference(debts)
                             THEN "improving"
                             ELSE "stable")]

\* A faulty DaysSince: the count includes the green reading itself.
DaysSincePlusOne(scores, i) == Len(scores) - i + 1

\* days_since_green = len(scores) - 1 - i; i is 1-based here
DaysSince(scores, i) == Len(scores) - i

\* for i in range(len(scores) - 1, -1, -1): if scores.iloc[i] >= 67: ...;
\* len(scores) when the loop finds no reading >= 67
RECURSIVE DaysSinceGreen(_, _)
DaysSinceGreen(scores, i) ==
    IF i < 1 THEN Len(scores)
    ELSE IF scores[i] >= 67 THEN DaysSince(scores, i)
    ELSE DaysSinceGreen(scores, i - 1)

\* zone = "red" if latest < 34 else "yellow" if latest < 67 else "green"
Zone(latest) ==
    IF latest < 34 THEN "red" ELSE IF latest < 67 THEN "yellow" ELSE "green"

_analyse_recovery(df) ==
    LET scores == DropNa([i \in 1..Len(df) |-> df[i].recovery_score])
        n == Len(scores)
    IN  IF df = <<>> \/ scores = <<>>
        THEN [latest |-> None, zone |-> None, trend |-> None,
              days_since_green_zone |-> None, history |-> <<>>]
        ELSE [latest |-> Some(scores[n]),
              zone |-> Some(Zone(scores[n])),
              trend |-> Some(IF n >= 2 /\ scores[n] > scores[n - 1] THEN "improving"
                             ELSE IF n >= 2 /\ scores[n] < scores[n - 1] THEN "declining"
                             ELSE "stable"),
              days_since_green_zone |-> Some(DaysSinceGreen(scores, n)),
              history |-> scores]

\* Debt readings in minutes and recovery scores on both sides of the zone
\* thresholds; a session may carry neither
DebtReadings == {30, 90}
RecoveryScores == {33, 34, 66, 67}

PrimarySessions ==
    [ sleep_debt_min : Optional(DebtReadings), recovery_score : Optional(RecoveryScores) ]

InitTrend ==
    /\ pc = "start"
    /\ \E n \in 0..MaxPrimary : \E df \in [1..n -> PrimarySessions] : primary_df = df
    /\ sleep_debt = <<>> /\ recovery = <<>>
    /\ StrainIdle /\ ClassifyIdle /\ ReadinessIdle /\ SleepIdle /\ SessionIdle
       /\ PatternIdle /\ ActivityIdle /\ AnalystIdle /\ PipelineIdle
       /\ StripIdle /\ CircadianIdle /\ InsightsIdle /\ WatchIdle /\ ChatIdle
       /\ ExerciseIdle /\ AlertsIdle

\* analyse_sleep_sessions: debt = _analyse_sleep_debt(primary_df)
AnalyseSleepDebt ==
    /\ pc = "start"
    /\ pc' = "debt"
    /\ sleep_debt' = <<_analyse_sleep_debt(primary_df)>>
    /\ UNCHANGED <<primary_df, recovery, NotTrend>>

\* analyse_sleep_sessions: recovery = _analyse_recovery(primary_df)
AnalyseRecovery ==
    /\ pc = "debt"
    /\ pc' = "done"
    /\ recovery' = <<_analyse_recovery(primary_df)>>
    /\ UNCHANGED <<primary_df, sleep_debt, NotTrend>>

NextTrend == AnalyseSleepDebt \/ AnalyseRecovery

SpecTrend == InitTrend /\ [][NextTrend]_vars

\* The non-null readings of the two columns of the log, oldest first
DebtLog ==
    SelectSeq([i \in 1..Len(primary_df) |-> primary_df[i].sleep_debt_min],
              LAMBDA x : x # <<>>)
RecoveryLog ==
    SelectSeq([i \in 1..Len(primary_df) |-> primary_df[i].recovery_score],
              LAMBDA x : x # <<>>)

\* C9: a reported sleep-debt trend is worsening, improving or stable by the
\* comparison of the last against the first of the most recent 3 non-null
\* debt readings (of the 2 if only 2 exist, stable if only 1); a reported
\* recovery trend is improving, declining or stable by the comparison of the
\* last two non-null recovery readings.
TrendsMatchRecomputation ==
    pc = "done" =>
        /\ sleep_debt[1].trend # None <=> DebtLog # <<>>
        /\ DebtLog # <<>> =>
            LET n == Len(DebtLog)
                last == DebtLog[n][1]
                first == DebtLog[IF n >= 3 THEN n - 2 ELSE 1][1]
            IN  sleep_debt[1].trend[1] =
                    IF last > first THEN "worsening"
                    ELSE IF last < first THEN "improving" ELSE "stable"
        /\ recovery[1].trend # None <=> RecoveryLog # <<>>
        /\ RecoveryLog # <<>> =>
            LET n == Len(RecoveryLog)
                last == RecoveryLog[n][1]
                prev == RecoveryLog[IF n >= 2 THEN n - 1 ELSE 1][1]
            IN  recovery[1].trend[1] =
                    IF last > prev THEN "improving"
                    ELSE IF last < prev THEN "declining" ELSE "stable"

\* Four debt readings 30, 90, 90, 90: worse than the first ever, stable over
\* the most recent three; recovery fell from 67 to 34.
DebtStableOverLastThree ==
    /\ pc = "done"
    /\ Len(DebtLog) = 4
    /\ DebtLog = <<Some(30), Some(90), Some(90), Some(90)>>
    /\ sleep_debt[1].trend = Some("stable")
    /\ Len(RecoveryLog) >= 2
    /\ recovery[1].trend = Some("declining")

\* C10: days_since_green_zone is the number of readings after the most
\* recent reading >= 67 (0 exactly when the latest reading is >= 67, which is
\* exactly when zone is green) and the number of readings when none is >= 67;
\* zone is red for latest < 34, yellow for 34 <= latest < 67, green for
\* latest >= 67.
DaysSinceGreenAndZone ==
    (pc = "done" /\ RecoveryLog # <<>>) =>
        LET n == Len(RecoveryLog)
            latest == RecoveryLog[n][1]
            greens == {i \in 1..n : RecoveryLog[i][1] >= 67}
            days == recovery[1].days_since_green_zone[1]
            zone == recovery[1].zone[1]
        IN  /\ days = IF greens = {} THEN n ELSE n - Last(greens)
            /\ days = 0 <=> latest >= 67
            /\ zone = "green" <=> latest >= 67
            /\ zone = "red" <=> latest < 34
            /\ zone = "yellow" <=> (latest >= 34 /\ latest < 67)

\* A green reading followed by two readings below 67: two days since green.
TwoDaysSinceGreen ==
    /\ pc = "done"
    /\ Len(RecoveryLog) = 3
    /\ RecoveryLog[1] = Some(67) /\ RecoveryLog[2] = Some(33) /\ RecoveryLog[3] = Some(66)
    /\ recovery[1].days_since_green_zone = Some(2)
    /\ recovery[1].zone = Some("yellow")

-----------------------------------------------------------------------------
(* patterns.py: detect_patterns, the rules on the daily Ready means and on  *)
(* the sleep architecture of the session log.  The other rules read other  *)
(* keys of the results and append patterns of other names.                 *)

MaxReadyDays == 8
MaxNightRows == 3

\* recent = daily_ready[-7:]
LastSeven(daily_ready) ==
    IF Len(daily_ready) > 7
    THEN SubSeq(daily_ready, Len(daily_ready) - 6, Len(daily_ready))
    ELSE daily_ready

\* A faulty DecliningDays: a day without change counts as a decline.
DecliningOrFlatDays(means) ==
    Cardinality({i \in 1..(Len(means) - 1) : means[i + 1] - means[i] <= 0})

\* deltas = [means[i + 1] - means[i] ...];
\* declining_days = sum(1 for d in deltas if d < 0)
DecliningDays(means) ==
    Cardinality({i \in 1..(Len(means) - 1) : means[i + 1] - means[i] < 0})

\* Rule 1.  The mean of a day of daily_ready is a float, never None, so the
\* filter of the means keeps every day.
ReadinessDebtRule(daily_ready) ==
    LET recent == LastSeven(daily_ready)
        means == [i \in 1..Len(recent) |-> recent[i].mean]
    IN  IF Len(daily_ready) >= 5 /\ Len(means) >= 5 /\ DecliningDays(means) >= 3
        THEN << [pattern |-> "compounding_readiness_debt",
                 severity |-> "warning",
                 first_detected |-> Some(recent[Len(recent)].date)] >>
        ELSE <<>>

\* n.get("deep_pct", 100) < 15 and n.get("total_sleep_min", 0) > 60, with the
\* percentages in tenths
LowDeep(n) == n.deep_pct < 150 /\ n.total_sleep_min > 60
LowRem(n) == n.rem_pct < 200 /\ n.total_sleep_min > 60

\* Rules 10 and 11, on low = [n for n in ss_nights if ...]
DeficitRule(name, low) ==
    IF Len(low) >= 2
    THEN << [pattern |-> name, severity |-> "warning",
             first_detected |-> Some(low[1].night_date)] >>
    ELSE <<>>

detect_patterns(res) ==
    ReadinessDebtRule(res.daily_ready)
        \o DeficitRule("deep_sleep_deficit", SelectSeq(res.nights, LowDeep))
        \o DeficitRule("rem_sleep_deficit", SelectSeq(res.nights, LowRem))

\* round(part / total * 100, 1) if total > 0 else 0, in tenths
PctOf(part, total) ==
    IF total > 0 THEN (part * 2000 + total) \div (2 * total) ELSE 0

\* sleep_sessions.py: the rows of results["sleep_sessions"]["nights"], one
\* for every session of the log, naps included
_build_night_summaries(df, types) ==
    [i \in 1..Len(df) |->
        [night_date |-> df[i].night_date,
         session_type |-> types[i],
         total_sleep_min |-> df[i].total_sleep_time_min,
         deep_pct |-> PctOf(df[i].total_deep, df[i].total_sleep_time_min),
         rem_pct |-> PctOf(df[i].total_rem, df[i].total_sleep_time_min)]]

\* Daily means that rise, fall or stay
ReadyMeans == {135, 140, 148, 160}

\* Sessions at a night hour and at a nap hour, under and over an hour of
\* sleep, with deep and REM shares below and inside the targets
StageShares == {<<10, 15>>, <<20, 15>>, <<20, 25>>}
SessionRows ==
    { [night_date |-> d, sleep_start_hour |-> h, total_sleep_time_min |-> t,
       total_deep |-> (t * s[1]) \div 100, total_rem |-> (t * s[2]) \div 100] :
        d \in {1, 2}, h \in {9, 14}, t \in {50, 100, 400}, s \in StageShares }

\* The results of a run on the tests alone
InitPatterns ==
    /\ pc = "start"
    /\ \E n \in 0..MaxReadyDays : \E mm \in [1..n -> ReadyMeans] :
           results = [daily_ready |-> [i \in 1..n |-> [date |-> i, mean |-> mm[i]]],
                      nights |-> <<>>]
    /\ patterns = <<>>
    /\ StrainIdle /\ ClassifyIdle /\ ReadinessIdle /\ SleepIdle /\ SessionIdle
       /\ TrendIdle /\ ActivityIdle /\ AnalystIdle /\ PipelineIdle
       /\ StripIdle /\ CircadianIdle /\ InsightsIdle /\ WatchIdle /\ ChatIdle
       /\ ExerciseIdle /\ AlertsIdle

\* The results of a run on the session log alone
InitSleepPatterns ==
    /\ pc = "start"
    /\ \E n \in 0..MaxNightRows : \E df \in [1..n -> SessionRows] :
           results = [daily_ready |-> <<>>,
                      nights |-> _build_night_summaries(df, _classify_session_type(df))]
    /\ patterns = <<>>
    /\ StrainIdle /\ ClassifyIdle /\ ReadinessIdle /\ SleepIdle /\ SessionIdle
       /\ TrendIdle /\ ActivityIdle /\ AnalystIdle /\ PipelineIdle
       /\ StripIdle /\ CircadianIdle /\ InsightsIdle /\ WatchIdle /\ ChatIdle
       /\ ExerciseIdle /\ AlertsIdle

\* cli.py: results["patterns"] = detect_patterns(tests_df, results)
DetectPatterns ==
    /\ pc = "start"
    /\ pc' = "done"
    /\ patterns' = detect_patterns(results)
    /\ UNCHANGED <<results, NotPatterns>>

NextPatterns == DetectPatterns

SpecPatterns == InitPatterns /\ [][NextPatterns]_vars
SpecSleepPatterns == InitSleepPatterns /\ [][NextPatterns]_vars

\* The patterns of a name in the returned list
Fired(name) == {i \in 1..Len(patterns) : patterns[i].pattern = name}

\* The negative day-to-day deltas among the last (at most 7) daily means
NegativeDeltas ==
    LET recent == LastSeven(results.daily_ready)
    IN  {i \in 1..(Len(recent) - 1) : recent[i + 1].mean < recent[i].mean}

\* C11 as stated: with 4 or more days (3 or more deltas),
\* compounding_readiness_debt is emitted, with severity warning, exactly
\* when at least 3 of the deltas are negative.
DebtFiresFromThreeDeltas ==
    (pc = "done" /\ Len(results.daily_ready) >= 4) =>
        /\ Fired("compounding_readiness_debt") # {}
               <=> Cardinality(NegativeDeltas) >= 3
        /\ \A i \in Fired("compounding_readiness_debt") :
               patterns[i].severity = "warning"

\* C11: compounding_readiness_debt is emitted, once and with severity
\* warning, exactly when there are at least 5 daily Ready means and at least
\* 3 of the day-to-day deltas among the last (at most 7) are negative.
DebtFiresFromFiveDays ==
    pc = "done" =>
        /\ Cardinality(Fired("compounding_readiness_debt")) <= 1
        /\ Fired("compounding_readiness_debt") # {}
               <=> (Len(results.daily_ready) >= 5 /\ Cardinality(NegativeDeltas) >= 3)
        /\ \A i \in Fired("compounding_readiness_debt") :
               patterns[i].severity = "warning"

\* Five days with three negative deltas of four: the pattern fires.
FiveDecliningDaysFire ==
    /\ pc = "done"
    /\ Len(results.daily_ready) = 5
    /\ [i \in 1..5 |-> results.daily_ready[i].mean] = <<160, 148, 135, 160, 135>>
    /\ Cardinality(NegativeDeltas) = 3
    /\ Fired("compounding_readiness_debt") = {1}

\* The primary sessions of more than 60 minutes below a target
PrimaryBelow(Low(_)) ==
    {i \in 1..Len(results.nights) :
        results.nights[i].session_type = "primary" /\ Low(results.nights[i])}

\* C12: deep_sleep_deficit and rem_sleep_deficit each fire exactly when at
\* least 2 primary sessions longer than 60 minutes are below the 15% deep
\* (20% REM) target; a nap never contributes to the count.
DeficitsCountPrimaryOnly ==
    pc = "done" =>
        /\ Fired("deep_sleep_deficit") # {} <=> Cardinality(PrimaryBelow(LowDeep)) >= 2
        /\ Fired("rem_sleep_deficit") # {} <=> Cardinality(PrimaryBelow(LowRem)) >= 2

-----------------------------------------------------------------------------
(* activity.py: the classification of the epochs *)

MaxActivityEpochs == 2

_SEDENTARY_ENERGY == 50
_LIGHT_ENERGY == 200
_MODERATE_ENERGY == 600

_classify_epoch(energy, hr_bpm) ==
    IF energy < _SEDENTARY_ENERGY /\ hr_bpm < 80 THEN "sedentary"
    ELSE IF energy < _LIGHT_ENERGY THEN "light"
    ELSE IF energy < _MODERATE_ENERGY \/ (80 <= hr_bpm /\ hr_bpm < 100) THEN "moderate"
    ELSE "vigorous"

\* hr_values = wear[hr_col].fillna(60)
FillNa(v, fill) == IF v = None THEN fill ELSE v[1]

\* wear["activity_level"] = [_classify_epoch(e, h) for e, h in zip(...)]
ActivityLevels(df) ==
    [i \in 1..Len(df) |->
        _classify_epoch(df[i].acc_energy, FillNa(df[i].heart_rate_mean, 60))]

\* Energies and heart rates on both sides of every threshold; an epoch may
\* have no heart rate
Energies == {0, 49, 50, 199, 200, 599, 600}
EpochHeartRates == {79, 80, 99, 100}
ActivityEpochs ==
    [ acc_energy : Energies,
      heart_rate_mean : {None} \cup {Some(h) : h \in EpochHeartRates} ]

InitActivity ==
    /\ pc = "start"
    /\ \E n \in 0..MaxActivityEpochs : \E df \in [1..n -> ActivityEpochs] :
           activity_df = df
    /\ activity_level = <<>>
    /\ StrainIdle /\ ClassifyIdle /\ ReadinessIdle /\ SleepIdle /\ SessionIdle
       /\ TrendIdle /\ PatternIdle /\ AnalystIdle /\ PipelineIdle
       /\ StripIdle /\ CircadianIdle /\ InsightsIdle /\ WatchIdle /\ ChatIdle
       /\ ExerciseIdle /\ AlertsIdle

ClassifyEpochs ==
    /\ pc = "start"
    /\ pc' = "done"
    /\ activity_level' = ActivityLevels(activity_df)
    /\ UNCHANGED <<activity_df, NotActivity>>

NextActivity == ClassifyEpochs

SpecActivity == InitActivity /\ [][NextActivity]_vars

\* C13: an epoch is sedentary exactly when its energy is below the sedentary
\* threshold and its heart rate below 80, and every epoch with a heart rate
\* from 80 to 100 is moderate or vigorous whatever its energy.
HeartRateForcesModerate ==
    pc = "done" =>
        \A i \in 1..Len(activity_df) :
            LET e == activity_df[i].acc_energy
                h == FillNa(activity_df[i].heart_rate_mean, 60)
            IN  /\ activity_level[i] = "sedentary" <=> (e < _SEDENTARY_ENERGY /\ h < 80)
                /\ (80 <= h /\ h < 100) => activity_level[i] \in {"moderate", "vigorous"}

-----------------------------------------------------------------------------
(* analyst.py: generate_briefing, the parsing of the response.  A text is a *)
(* sequence of tokens; a token is a run of n characters of one kind.        *)

MaxTokens == 5

FENCE == [c |-> "fence", n |-> 3]      \* a line of three backticks
NL == [c |-> "newline", n |-> 1]
OBJ == [c |-> "object", n |-> 2]     \* {}
X(k) == [c |-> "x", n |-> k]

\* raw.strip(): the text without its leading and trailing whitespace
RECURSIVE LStrip(_)
LStrip(text) ==
    IF text # <<>> /\ Head(text) = NL THEN LStrip(Tail(text)) ELSE text

RECURSIVE RStrip(_)
RStrip(text) ==
    IF text # <<>> /\ text[Len(text)] = NL
    THEN RStrip(SubSeq(text, 1, Len(text) - 1))
    ELSE text

Strip(text) == RStrip(LStrip(text))

\* text.split("\n"): the lines of a text, at least one
RECURSIVE Split(_)
Split(text) ==
    IF text = <<>> THEN << <<>> >>
    ELSE LET rest == Split(Tail(text))
         IN  IF Head(text) = NL THEN << <<>> >> \o rest
             ELSE << <<Head(text)>> \o Head(rest) >> \o Tail(rest)

\* "\n".join(lines)
RECURSIVE Join(_)
Join(lines) ==
    IF lines = <<>> THEN <<>>
    ELSE IF Len(lines) = 1 THEN lines[1]
    ELSE lines[1] \o <<NL>> \o Join(Tail(lines))

\* A faulty StripFences: the closing fence is left in the text.
StripOpeningFence(text) ==
    IF text # <<>> /\ Head(text) = FENCE
    THEN Join(Tail(Split(text)))
    ELSE text

\* if text.startswith("```"): lines[1:-1] if the last line is a fence,
\* lines[1:] otherwise
StripFences(text) ==
    IF text # <<>> /\ Head(text) = FENCE
    THEN LET lines == Split(text)
         IN  IF Strip(lines[Len(lines)]) = <<FENCE>>
             THEN Join(SubSeq(lines, 2, Len(lines) - 1))
             ELSE Join(Tail(lines))
    ELSE text

\* json.loads(text) returns for one JSON value between optional whitespace
\* and raises JSONDecodeError for every other text
IsJson(text) == SelectSeq(text, LAMBDA tok : tok # NL) = <<OBJ>>

\* text[:k]: the first k characters
RECURSIVE Take(_, _)
Take(text, k) ==
    IF text = <<>> \/ k <= 0 THEN <<>>
    ELSE IF Head(text).n <= k
         THEN <<Head(text)>> \o Take(Tail(text), k - Head(text).n)
         ELSE << [c |-> Head(text).c, n |-> k] >>

\* The parsed value, or the error object of the except branch
generate_briefing(response) ==
    LET text == StripFences(Strip(response))
    IN  IF IsJson(text)
        THEN [parsed |-> Some("{}"), briefing_version |-> None,
              error |-> None, raw_response |-> None]
        ELSE [parsed |-> None, briefing_version |-> Some("1.0"),
              error |-> Some("LLM response was not valid JSON"),
              raw_response |-> Some(Take(text, 2000))]

\* The tokens of a response: a fence, a line break, a JSON object, a
\* character that is not JSON and a run of 2000 of them
Tokens == {FENCE, NL, OBJ, X(1), X(2000)}

InitBriefing ==
    /\ pc = "llm"
    /\ \E n \in 0..MaxTokens : \E text \in [1..n -> Tokens] : raw = text
    /\ briefing = <<>>
    /\ StrainIdle /\ ClassifyIdle /\ ReadinessIdle /\ SleepIdle /\ SessionIdle
       /\ TrendIdle /\ PatternIdle /\ ActivityIdle /\ PipelineIdle
       /\ StripIdle /\ CircadianIdle /\ InsightsIdle /\ WatchIdle /\ ChatIdle
       /\ ExerciseIdle /\ AlertsIdle

ParseResponse ==
    /\ pc = "llm"
    /\ pc' = "done"
    /\ briefing' = <<generate_briefing(raw)>>
    /\ UNCHANGED <<raw, NotAnalyst>>

NextBriefing == ParseResponse

SpecBriefing == InitBriefing /\ [][NextBriefing]_vars

\* The number of characters of a text
RECURSIVE Chars(_)
Chars(text) == IF text = <<>> THEN 0 ELSE Head(text).n + Chars(Tail(text))

\* The text of a response without its markdown fences
Unfenced ==
    LET text == Strip(raw)
        lines == Split(text)
        n == Len(lines)
    IN  IF text = <<>> \/ text[1] # FENCE THEN text
        ELSE IF lines[n] = <<FENCE>> THEN Join(SubSeq(lines, 2, n - 1))
        ELSE Join(SubSeq(lines, 2, n))

\* C15: for every response text that is not valid JSON once its markdown
\* fences are stripped, generate_briefing returns (it raises nothing) an
\* object with an error field and the response text in raw_response, cut to
\* its first 2000 characters; a valid JSON text gives no error object.
NonJsonGivesErrorObject ==
    pc = "done" =>
        IF IsJson(Unfenced)
        THEN briefing[1].error = None /\ briefing[1].parsed # None
        ELSE /\ briefing[1].error # None
             /\ briefing[1].parsed = None
             /\ briefing[1].raw_response # None
             /\ LET kept == briefing[1].raw_response[1]
                IN  /\ Chars(kept) = Min(Chars(Unfenced), 2000)
                    /\ Take(Unfenced, Chars(kept)) = kept

\* A fenced response that is not JSON: an error object with the text
\* between the fences.
FencedTextGivesError ==
    /\ pc = "done"
    /\ raw = <<FENCE, NL, X(1), NL, FENCE>>
    /\ briefing[1].error # None
    /\ briefing[1].raw_response = Some(<<X(1)>>)

-----------------------------------------------------------------------------
(* cli.py: main.  A CSV file is known by what main derives from it: the     *)
(* tests by their 7-day Ready slope, the session log by its latest recovery *)
(* zone and the sessions since the last green one, the sensor epochs by     *)
(* their presence.  A document is a flat record of its fields; a field an   *)
(* analyser fills from the data is known by the name of its source.         *)

\* The steps of main, in the order of the code
Stages ==
    << "load", "tests", "sleep_sessions", "metrics", "readiness", "patterns",
       "packet", "write_full", "payload", "write_payload", "graphs",
       "briefing", "done" >>

\* A faulty main: the graphs are rendered before the documents are written.
StagesRenderingFirst ==
    << "load", "tests", "sleep_sessions", "metrics", "readiness", "patterns",
       "packet", "graphs", "write_full", "payload", "write_payload",
       "briefing", "done" >>

AfterIn(order, stage) ==
    order[(CHOOSE i \in 1..Len(order) : order[i] = stage) + 1]

AfterRenderingFirst(stage) == AfterIn(StagesRenderingFirst, stage)

\* The step that follows a step of main
After(stage) == AfterIn(Stages, stage)

\* results = {}: no key yet
NoResults ==
    [performance |-> None, circadian |-> None, sleep_sessions |-> None,
     hrv |-> None, sleep |-> None, activity |-> None, strain |-> None,
     readiness |-> None, patterns |-> None]

NoFiles == [full |-> None, payload |-> None, graphs |-> FALSE, briefing |-> None]

\* The keys of results that are set
KeysOf(res) == {k \in DOMAIN res : res[k] # None}

\* context_packet.py: "declining" if (slope or 0) < -0.5 else "improving"
\* if (slope or 0) > 0.5 else "stable"; the slope is a whole number here
TrendDirection(slope) ==
    LET s == IF slope = None THEN 0 ELSE slope[1]
    IN  IF s < 0 THEN "declining" ELSE IF s > 0 THEN "improving" ELSE "stable"

\* value if the key of results is set, None otherwise: results.get(key, {})
\* followed by .get(field)
Get(res, key, value) == IF res[key] # None THEN Some(value) ELSE None

\* A faulty build_context_packet: the day summary carries the time of the run.
build_context_packet_dated(fr, res, now) ==
    [analysis_generated_at |-> Some(now),
     data_coverage |-> Some({f \in DOMAIN fr : fr[f] # None}),
     baseline_ready_score |-> Get(res, "performance", "ready_baseline"),
     baseline_rmssd_sleep_peak_ms |-> Get(res, "hrv", "rmssd_sleep_peak"),
     latest_day |-> Get(res, "performance", now),
     daily_summaries |-> Get(res, "performance", "daily_summaries"),
     weekly_summaries |-> Get(res, "performance", "weekly"),
     trends_ready_7d_slope |->
         IF res.performance # None THEN res.performance[1].ready_7d_slope ELSE None,
     trends_ready_trend_direction |->
         Some(TrendDirection(IF res.performance # None
                             THEN res.performance[1].ready_7d_slope ELSE None)),
     trends_rmssd_7d_slope |-> Get(res, "hrv", "rmssd_7d_slope"),
     trends_agility_trend |-> Some("stable"),
     circadian_estimated_peak_window |-> Get(res, "circadian", "estimated_peak_window"),
     task_matching |-> Get(res, "readiness", "task_suitability"),
     patterns_detected |-> res.patterns,
     sleep_sessions |-> Get(res, "sleep_sessions", "nights"),
     sleep_debt |-> Get(res, "sleep_sessions", "sleep_debt"),
     recovery |-> res.sleep_sessions,
     strain |-> Get(res, "strain", "daily_strain")]

\* context_packet.py
build_context_packet(fr, res, now) ==
    [analysis_generated_at |-> Some(now),
     data_coverage |-> Some({f \in DOMAIN fr : fr[f] # None}),
     baseline_ready_score |-> Get(res, "performance", "ready_baseline"),
     baseline_rmssd_sleep_peak_ms |-> Get(res, "hrv", "rmssd_sleep_peak"),
     latest_day |-> Get(res, "performance", "daily_summaries[-1]"),
     daily_summaries |-> Get(res, "performance", "daily_summaries"),
     weekly_summaries |-> Get(res, "performance", "weekly"),
     trends_ready_7d_slope |->
         IF res.performance # None THEN res.performance[1].ready_7d_slope ELSE None,
     trends_ready_trend_direction |->
         Some(TrendDirection(IF res.performance # None
                             THEN res.performance[1].ready_7d_slope ELSE None)),
     trends_rmssd_7d_slope |-> Get(res, "hrv", "rmssd_7d_slope"),
     trends_agility_trend |-> Some("stable"),
     circadian_estimated_peak_window |-> Get(res, "circadian", "estimated_peak_window"),
     task_matching |-> Get(res, "readiness", "task_suitability"),
     patterns_detected |-> res.patterns,
     sleep_sessions |-> Get(res, "sleep_sessions", "nights"),
     sleep_debt |-> Get(res, "sleep_sessions", "sleep_debt"),
     recovery |-> res.sleep_sessions,
     strain |-> Get(res, "strain", "daily_strain")]

\* agent_payload.py
_derive_readiness_regime(zone, days_since_green) ==
    IF zone = Some("red") THEN "red"
    ELSE IF zone = Some("yellow")
         THEN (IF days_since_green # None /\ days_since_green[1] >= 3
               THEN "chronic_yellow" ELSE "yellow")
    ELSE "green"

\* agent_payload.py: _strip_nulls on a flat document
StripNullFields(doc) ==
    LET kept == {k \in DOMAIN doc : doc[k] # None}
    IN  [k \in kept |-> doc[k]]

\* agent_payload.py
build_agent_payload(pkt, res) ==
    LET zone == IF pkt.recovery # None THEN Some(pkt.recovery[1].zone) ELSE None
        dsg == IF pkt.recovery # None
               THEN Some(pkt.recovery[1].days_since_green_zone) ELSE None
    IN  StripNullFields(
            [schema_version |-> Some("3.0"),
             analysis_generated_at |-> pkt.analysis_generated_at,
             data_coverage |-> pkt.data_coverage,
             agent_state_readiness_regime |-> Some(_derive_readiness_regime(zone, dsg)),
             baseline_ready_score |-> pkt.baseline_ready_score,
             baseline_rmssd_sleep_peak_ms |-> pkt.baseline_rmssd_sleep_peak_ms,
             latest_day |-> pkt.latest_day,
             circadian_estimated_peak_window |-> pkt.circadian_estimated_peak_window,
             recovery |-> pkt.recovery,
             sleep_debt |-> pkt.sleep_debt,
             strain |-> pkt.strain,
             trends_ready_7d_slope |-> pkt.trends_ready_7d_slope,
             trends_ready_trend_direction |-> pkt.trends_ready_trend_direction,
             trends_rmssd_7d_slope |-> pkt.trends_rmssd_7d_slope,
             trends_agility_trend |-> pkt.trends_agility_trend])

\* What a file of tests, a session log and a file of sensor epochs hold
TestCsvs == {-1, 0}
SleepCsvs ==
    { [zone |-> "green", days_since_green_zone |-> 0],
      [zone |-> "yellow", days_since_green_zone |-> 3],
      [zone |-> "red", days_since_green_zone |-> 1] }
MetricsCsvs == {"epochs"}

\* datetime.now(): the clock at the time of a run
Clock == {1, 2}

\* What the provider may answer
Responses == { <<OBJ>>, <<FENCE, NL, OBJ, NL, FENCE>>, <<X(1)>> }

\* The start of a run of main on the arguments a
StartOfMain(a) ==
    /\ pc = "load"
    /\ args = a
    /\ frames = <<>>
    /\ main_results = NoResults
    /\ packet = None /\ payload = None
    /\ files = NoFiles
    /\ llm = "idle"
    /\ raised = None
    /\ raw = <<>> /\ briefing = <<>>

\* parser.error(...) ends main when no CSV is given
InitMain ==
    /\ \E t \in Optional(TestCsvs), s \in Optional(SleepCsvs),
          e \in Optional(MetricsCsvs), b \in BOOLEAN :
           /\ ~(t = None /\ s = None /\ e = None)
           /\ StartOfMain([test_csv |-> t, sleep_csv |-> s, metrics_csv |-> e,
                           briefing |-> b])
    /\ first_run = None
    /\ StrainIdle /\ ClassifyIdle /\ ReadinessIdle /\ SleepIdle /\ SessionIdle
       /\ TrendIdle /\ PatternIdle /\ ActivityIdle /\ StripIdle
       /\ CircadianIdle /\ InsightsIdle /\ WatchIdle /\ ChatIdle
       /\ ExerciseIdle /\ AlertsIdle

Step(stage) == pc = stage /\ pc' = After(stage)

LoadData ==
    /\ Step("load")
    /\ frames' = [tests_df |-> args.test_csv, sleep_df |-> args.sleep_csv,
                  metrics_df |-> args.metrics_csv]
    /\ UNCHANGED <<args, main_results, packet, payload, files, llm, raised,
                   first_run, AnalystVars, NotPipeline>>

\* if tests_df is not None: performance and circadian
AnalyseTests ==
    /\ Step("tests")
    /\ main_results' =
         IF frames.tests_df # None
         THEN [main_results EXCEPT
                 !.performance = Some([ready_7d_slope |-> frames.tests_df]),
                 !.circadian = Some("circadian")]
         ELSE main_results
    /\ UNCHANGED <<args, frames, packet, payload, files, llm, raised,
                   first_run, AnalystVars, NotPipeline>>

\* if sleep_df is not None: sleep_sessions
AnalyseSleepSessions ==
    /\ Step("sleep_sessions")
    /\ main_results' =
         IF frames.sleep_df # None
         THEN [main_results EXCEPT !.sleep_sessions = frames.sleep_df]
         ELSE main_results
    /\ UNCHANGED <<args, frames, packet, payload, files, llm, raised,
                   first_run, AnalystVars, NotPipeline>>

\* if metrics_df is not None: hrv, sleep, activity, strain
AnalyseMetrics ==
    /\ Step("metrics")
    /\ main_results' =
         IF frames.metrics_df # None
         THEN [main_results EXCEPT !.hrv = Some("hrv"), !.sleep = Some("sleep"),
                 !.activity = Some("activity"), !.strain = Some("strain")]
         ELSE main_results
    /\ UNCHANGED <<args, frames, packet, payload, files, llm, raised,
                   first_run, AnalystVars, NotPipeline>>

\* if tests_df is not None: readiness
AssignTiers ==
    /\ Step("readiness")
    /\ main_results' =
         IF frames.tests_df # None
         THEN [main_results EXCEPT !.readiness = Some("readiness")]
         ELSE main_results
    /\ UNCHANGED <<args, frames, packet, payload, files, llm, raised,
                   first_run, AnalystVars, NotPipeline>>

\* results["patterns"] = detect_patterns(tests_df, results): the patterns
\* are known by the keys of results they are found in
RunDetectPatterns ==
    /\ Step("patterns")
    /\ main_results' = [main_results EXCEPT !.patterns = Some(KeysOf(main_results))]
    /\ UNCHANGED <<args, frames, packet, payload, files, llm, raised,
                   first_run, AnalystVars, NotPipeline>>

BuildPacket ==
    /\ Step("packet")
    /\ \E now \in Clock :
           packet' = Some(build_context_packet(frames, main_results, now))
    /\ UNCHANGED <<args, frames, main_results, payload, files, llm, raised,
                   first_run, AnalystVars, NotPipeline>>

WriteFull ==
    /\ Step("write_full")
    /\ files' = [files EXCEPT !.full = packet]
    /\ UNCHANGED <<args, frames, main_results, packet, payload, llm, raised,
                   first_run, AnalystVars, NotPipeline>>

BuildPayload ==
    /\ Step("payload")
    /\ payload' = Some(build_agent_payload(packet[1], main_results))
    /\ UNCHANGED <<args, frames, main_results, packet, files, llm, raised,
                   first_run, AnalystVars, NotPipeline>>

WritePayload ==
    /\ Step("write_payload")
    /\ files' = [files EXCEPT !.payload = payload]
    /\ UNCHANGED <<args, frames, main_results, packet, payload, llm, raised,
                   first_run, AnalystVars, NotPipeline>>

\* generate_all_graphs reads the frames and results and writes the images;
\* an error of the rendering library or of the disk is not caught
GenerateGraphs ==
    /\ pc = "graphs"
    /\ \/ /\ pc' = After("graphs")
          /\ files' = [files EXCEPT !.graphs = TRUE]
          /\ UNCHANGED raised
       \/ /\ pc' = "failed"
          /\ raised' = Some("rendering")
          /\ UNCHANGED files
    /\ UNCHANGED <<args, frames, main_results, packet, payload, llm,
                   first_run, AnalystVars, NotPipeline>>

\* if args.briefing: generate_briefing and the writing of the briefing; an
\* exception of the provider call is caught neither by generate_briefing
\* nor by main
RunAnalyst ==
    /\ pc = "briefing"
    /\ \/ /\ ~args.briefing
          /\ pc' = "done"
          /\ UNCHANGED <<files, llm, raised, AnalystVars>>
       \/ /\ args.briefing
          /\ \E response \in Responses :
                 /\ raw' = response
                 /\ briefing' = <<generate_briefing(response)>>
                 /\ files' = [files EXCEPT !.briefing = <<generate_briefing(response)>>]
          /\ llm' = "returned"
          /\ pc' = "done"
          /\ UNCHANGED raised
       \/ /\ args.briefing
          /\ llm' = "raised"
          /\ raised' = Some("provider")
          /\ pc' = "failed"
          /\ UNCHANGED <<files, AnalystVars>>
    /\ UNCHANGED <<args, frames, main_results, packet, payload, first_run,
                   NotPipeline>>

\* A second run of main on the same files
RunAgain ==
    /\ pc \in {"done", "failed"}
    /\ first_run = None
    /\ first_run' = Some(files)
    /\ pc' = "load"
    /\ frames' = <<>>
    /\ main_results' = NoResults
    /\ packet' = None /\ payload' = None
    /\ files' = NoFiles
    /\ llm' = "idle"
    /\ raised' = None
    /\ raw' = <<>> /\ briefing' = <<>>
    /\ UNCHANGED <<args, NotPipeline>>

NextMain ==
    \/ LoadData \/ AnalyseTests \/ AnalyseSleepSessions \/ AnalyseMetrics
    \/ AssignTiers \/ RunDetectPatterns \/ BuildPacket \/ WriteFull
    \/ BuildPayload \/ WritePayload \/ GenerateGraphs \/ RunAnalyst
    \/ RunAgain

SpecMain == InitMain /\ [][NextMain]_vars

\* The frame a field of the documents is derived from
NeedsFrame ==
    [baseline_ready_score |-> "tests_df", latest_day |-> "tests_df",
     daily_summaries |-> "tests_df", weekly_summaries |-> "tests_df",
     trends_ready_7d_slope |-> "tests_df",
     trends_ready_trend_direction |-> "tests_df",
     circadian_estimated_peak_window |-> "tests_df",
     task_matching |-> "tests_df",
     baseline_rmssd_sleep_peak_ms |-> "metrics_df",
     trends_rmssd_7d_slope |-> "metrics_df", strain |-> "metrics_df",
     sleep_sessions |-> "sleep_df", sleep_debt |-> "sleep_df",
     recovery |-> "sleep_df", agent_state_readiness_regime |-> "sleep_df"]

\* The field is null, empty or absent in the document
NullIn(doc, field) == field \in DOMAIN doc => doc[field] = None

\* C14: for every non-empty subset of the three frames, main reaches the
\* rendering step without an exception, with the full packet and the agent
\* payload written, and every field of the two documents that is derived
\* from an absent frame is null or empty.
AbsentFramesGiveNulls ==
    pc = "graphs" =>
        /\ raised = None
        /\ packet # None /\ files.full = packet
        /\ payload # None /\ files.payload = payload
        /\ \A field \in DOMAIN NeedsFrame :
               frames[NeedsFrame[field]] = None =>
                   NullIn(packet[1], field) /\ NullIn(payload[1], field)

\* C16: when the provider call raises, the failure is captured: main still
\* writes a briefing document and reaches its final step.
ProviderFailureIsCaptured ==
    llm = "raised" => (pc = "done" /\ raised = None /\ files.briefing # None)

\* C17: when main invokes the rendering, the full packet and the agent
\* payload are built and written; the rendering, failing or not, changes
\* neither the packet, the payload nor the two written documents.
DocumentsPrecedeRendering ==
    [][pc = "graphs" =>
          /\ packet # None /\ files.full = packet
          /\ payload # None /\ files.payload = payload
          /\ packet' = packet /\ payload' = payload
          /\ files'.full = files.full /\ files'.payload = files.payload]_vars

\* The rendering failed: both documents are on disk as they were built.
RenderingFailedDocumentsKept ==
    /\ pc = "failed" /\ raised = Some("rendering")
    /\ packet # None /\ files.full = packet
    /\ payload # None /\ files.payload = payload
    /\ ~files.graphs

\* A document without its timestamp
Undated(doc) == [doc EXCEPT !.analysis_generated_at = None]

-----------------------------------------------------------------------------
(* agent_payload.py: _strip_nulls.  A JSON value is a tagged record: None,  *)
(* a scalar, a dict (a function on its keys) or a list.                     *)

MaxItems == 1

JNone == [t |-> "none"]
JVal(x) == [t |-> "val", v |-> x]
JDict(f) == [t |-> "dict", d |-> f]
JList(s) == [t |-> "list", l |-> s]

\* if v is None: continue; if isinstance(v, dict) and not v: continue
IsDropped(v) ==
    \/ v.t = "none"
    \/ v.t = "dict" /\ DOMAIN v.d = {}

\* The conversion of the numpy scalars to Python scalars keeps their value.
RECURSIVE _strip_nulls(_)
_strip_nulls(obj) ==
    IF obj.t = "dict"
    THEN LET sv == [k \in DOMAIN obj.d |-> _strip_nulls(obj.d[k])]
             kept == {k \in DOMAIN obj.d : ~IsDropped(sv[k])}
         IN  IF kept = {} THEN JNone ELSE JDict([k \in kept |-> sv[k]])
    ELSE IF obj.t = "list"
    THEN LET cleaned == [i \in 1..Len(obj.l) |-> _strip_nulls(obj.l[i])]
         IN  JList(SelectSeq(cleaned, LAMBDA c : c.t # "none"))
    ELSE obj

\* The dicts on some of the keys and the lists of up to MaxItems values
DictsOf(keys, values) ==
    UNION { {JDict(f) : f \in [s -> values]} : s \in SUBSET keys }
ListsOf(values) ==
    UNION { {JList(s) : s \in [1..n -> values]} : n \in 0..MaxItems }

\* The values of the payload, by depth: the scalars and None; the dicts and
\* lists of these (a self_report, a list of names); the dicts and lists of
\* those (a latest_day with its self_report, the list of the alerts)
Scalars == {JNone, JVal(0)}
InnerKeys == {"stress", "score"}
Values1 == Scalars \cup DictsOf(InnerKeys, Scalars) \cup ListsOf(Scalars)
SectionKeys == {"self_report", "strain"}
Values2 == Scalars \cup DictsOf(SectionKeys, Values1) \cup ListsOf(Values1)

InitStrip ==
    /\ pc = "start"
    /\ \E alerts \in Values2, latest_day \in Values2 :
           unstripped = JDict([schema_version |-> JVal(3), alerts |-> alerts,
                               latest_day |-> latest_day])
    /\ stripped = <<>>
    /\ StrainIdle /\ ClassifyIdle /\ ReadinessIdle /\ SleepIdle /\ SessionIdle
       /\ TrendIdle /\ PatternIdle /\ ActivityIdle /\ AnalystIdle
       /\ PipelineIdle /\ CircadianIdle /\ InsightsIdle /\ WatchIdle
       /\ ChatIdle /\ ExerciseIdle /\ AlertsIdle

\* build_agent_payload: return _strip_nulls(payload)
StripNulls ==
    /\ pc = "start"
    /\ pc' = "done"
    /\ stripped' = _strip_nulls(unstripped)
    /\ UNCHANGED <<unstripped, NotStrip>>

NextStrip == StripNulls

SpecStrip == InitStrip /\ [][NextStrip]_vars

\* A key of a dict, at any depth of the value, holds None, an empty dict or
\* an empty list
RECURSIVE HasEmptyEntry(_)
HasEmptyEntry(v) ==
    IF v.t = "dict"
    THEN \E k \in DOMAIN v.d :
             \/ v.d[k].t = "none"
             \/ v.d[k].t = "dict" /\ DOMAIN v.d[k].d = {}
             \/ v.d[k].t = "list" /\ v.d[k].l = <<>>
             \/ HasEmptyEntry(v.d[k])
    ELSE IF v.t = "list"
    THEN \E i \in 1..Len(v.l) : HasEmptyEntry(v.l[i])
    ELSE FALSE

\* C19: the payload build_agent_payload returns has, at every depth, no key
\* whose value is None, an empty dict or an empty list.
PayloadHasNoEmptyEntry ==
    pc = "done" => ~HasEmptyEntry(stripped)

-----------------------------------------------------------------------------
(* circadian.py: the peak window of analyse_circadian on a successful fit.  *)
(* Times are integers: one hour is UnitsPerHour units, chosen so that the   *)
(* 240 points of np.linspace(0, 24, 240), 24/239 hour apart, and the        *)
(* acrophases, AcroPerHour to the hour, are whole numbers of units.         *)

GridPoints == 240
HoursPerDay == 24
AcroPerHour == 4
UnitsPerHour == (GridPoints - 1) * AcroPerHour
Day == HoursPerDay * UnitsPerHour

\* t_dense = np.linspace(0, 24, 240): point i, from 0, is at 24 * i / 239
t_dense(i) == HoursPerDay * AcroPerHour * i
Grid == 0..(GridPoints - 1)

\* cos(2 * pi * d / 24) >= 0.9 exactly when d, taken around the day, is at
\* most 24 * arccos(0.9) / (2 * pi) = 1.7227955... hours: PeakBand is that
\* width in units of 1 / BandScale hour, rounded down.  No distance between
\* a grid point and an acrophase falls between the two.
PeakBand == 172279
BandScale == 100000

\* The distance of two times of day around the 24-hour circle, which is
\* what the cosine of _cosinor depends on
CircDist(a, b) ==
    LET d == (a - b) % Day
    IN  IF d <= Day - d THEN d ELSE Day - d

\* y_dense >= threshold at time t: mesor + amplitude * cos(...) >=
\* mesor + 0.9 * amplitude, for an amplitude that is not negative
AtThreshold(t, amplitude, acrophase) ==
    \/ amplitude = 0
    \/ CircDist(t, acrophase) * BandScale <= PeakBand * UnitsPerHour

Abs(x) == IF x < 0 THEN -x ELSE x
SetMin(S) == CHOOSE x \in S : \A y \in S : x <= y
SetMax(S) == CHOOSE x \in S : \A y \in S : y <= x

\* int(t) of a time of day, in hours
IntHour(t) == t \div UnitsPerHour

\* analyse_circadian from the result of curve_fit on: amplitude = abs(..),
\* acrophase = acrophase % 24, the grid points at or above the threshold,
\* the first and the last of them and the window formatted from their hours
analyse_circadian(fit) ==
    LET amplitude == Abs(fit.amplitude)
        acrophase == fit.acrophase % Day
        above == {i \in Grid : AtThreshold(t_dense(i), amplitude, acrophase)}
    IN  IF Cardinality(above) >= 2
        THEN [amplitude |-> amplitude, acrophase |-> acrophase,
              peak_start |-> Some(t_dense(SetMin(above))),
              peak_end |-> Some(t_dense(SetMax(above))),
              estimated_peak_window |->
                  <<IntHour(t_dense(SetMin(above))), IntHour(t_dense(SetMax(above)))>>]
        ELSE [amplitude |-> amplitude, acrophase |-> acrophase,
              peak_start |-> None, peak_end |-> None,
              estimated_peak_window |->
                  <<IntHour(acrophase),
                    IntHour(acrophase + 2 * UnitsPerHour) % HoursPerDay>>]

\* The fitted parameters: curve_fit may return a negative amplitude and an
\* acrophase outside [0, 24); the acrophases are AcroPerHour to the hour,
\* from one day before midnight to two days after
Amplitudes == {-10, 0, 10}
Acrophases ==
    {(GridPoints - 1) * q :
        q \in (-(HoursPerDay * AcroPerHour))..(2 * HoursPerDay * AcroPerHour - 1)}

InitCircadian ==
    /\ pc = "start"
    /\ \E a \in Amplitudes, p \in Acrophases :
           popt = [amplitude |-> a, acrophase |-> p]
    /\ circadian = <<>>
    /\ StrainIdle /\ ClassifyIdle /\ ReadinessIdle /\ SleepIdle /\ SessionIdle
       /\ TrendIdle /\ PatternIdle /\ ActivityIdle /\ AnalystIdle
       /\ PipelineIdle /\ StripIdle /\ InsightsIdle /\ WatchIdle /\ ChatIdle
       /\ ExerciseIdle /\ AlertsIdle

\* analyse_circadian, the branch of the successful fit
FitPeakWindow ==
    /\ pc = "start"
    /\ pc' = "done"
    /\ circadian' = Some(analyse_circadian(popt))
    /\ UNCHANGED <<popt, NotCircadian>>

NextCircadian == FitPeakWindow

SpecCircadian == InitCircadian /\ [][NextCircadian]_vars

\* The grid points from the first to the last point of the peak window
InPeakWindow(c) ==
    {i \in Grid : /\ c.peak_start # None
                  /\ c.peak_start[1] <= t_dense(i)
                  /\ t_dense(i) <= c.peak_end[1]}

\* C20: on a successful fit the curve is at or above mesor + 0.9 * amplitude
\* at every grid point inside the peak window, whatever the acrophase.
PeakWindowIsAboveThreshold ==
    (pc = "done" /\ circadian # None) =>
        \A i \in InPeakWindow(circadian[1]) :
            AtThreshold(t_dense(i), circadian[1].amplitude,
                        circadian[1].acrophase)

-----------------------------------------------------------------------------
(* brain.py: _load_insights and its cache keyed by the modification time.   *)
(* The file is written, replaced, deleted and created again by the          *)
(* pipeline between the calls.                                              *)

MaxClock == 3
Contents == {1, 2}

\* path.exists(), path.stat().st_mtime, json.loads(path.read_text())
Exists(file) == file # None
Mtime(file) == file[1].mtime
ReadJson(file) == file[1].content

\* if mtime > _insights_cache["mtime"]: the file is read again
Stale(mtime, cache) == mtime > cache.mtime

\* _load_insights: the cache after the call and the value returned
_load_insights_cache(file, cache) ==
    IF ~Exists(file) THEN cache
    ELSE IF Stale(Mtime(file), cache)
    THEN [data |-> Some(ReadJson(file)), mtime |-> Mtime(file)]
    ELSE cache
_load_insights(file, cache) ==
    IF ~Exists(file) THEN None ELSE _load_insights_cache(file, cache).data

\* _insights_cache = {"data": None, "mtime": 0}; the file may exist or not
InitInsights ==
    /\ pc = "start"
    /\ fs_clock = 1
    /\ insights_cache = [data |-> None, mtime |-> 0]
    /\ \E c \in Contents :
           insights_file \in {None, Some([content |-> c, mtime |-> 1])}
    /\ loaded = <<>>
    /\ StrainIdle /\ ClassifyIdle /\ ReadinessIdle /\ SleepIdle /\ SessionIdle
       /\ TrendIdle /\ PatternIdle /\ ActivityIdle /\ AnalystIdle
       /\ PipelineIdle /\ StripIdle /\ CircadianIdle /\ WatchIdle /\ ChatIdle
       /\ ExerciseIdle /\ AlertsIdle

\* The time of the file system advances
TickClock ==
    /\ fs_clock < MaxClock
    /\ fs_clock' = fs_clock + 1
    /\ loaded' = <<>>
    /\ UNCHANGED <<pc, insights_file, insights_cache, NotInsights>>

\* The file is written in place or created: its mtime is the present time
WriteInsights ==
    /\ \E c \in Contents :
           insights_file' = Some([content |-> c, mtime |-> fs_clock])
    /\ loaded' = <<>>
    /\ UNCHANGED <<pc, fs_clock, insights_cache, NotInsights>>

\* The file is replaced by a file written before (a rename, a copy that
\* keeps the times): its mtime is the time that file was written
ReplaceInsights ==
    /\ \E c \in Contents, t \in 1..fs_clock :
           insights_file' = Some([content |-> c, mtime |-> t])
    /\ loaded' = <<>>
    /\ UNCHANGED <<pc, fs_clock, insights_cache, NotInsights>>

DeleteInsights ==
    /\ Exists(insights_file)
    /\ insights_file' = None
    /\ loaded' = <<>>
    /\ UNCHANGED <<pc, fs_clock, insights_cache, NotInsights>>

\* A call of _load_insights
LoadInsights ==
    /\ insights_cache' = _load_insights_cache(insights_file, insights_cache)
    /\ loaded' = Some(_load_insights(insights_file, insights_cache))
    /\ pc' = "loaded"
    /\ UNCHANGED <<fs_clock, insights_file, NotInsights>>

NextInsights ==
    \/ TickClock
    \/ WriteInsights
    \/ ReplaceInsights
    \/ DeleteInsights
    \/ LoadInsights

SpecInsights == InitInsights /\ [][NextInsights]_vars

\* C21: a call of _load_insights returns the content the file holds at the
\* time of the call, and None when the file is absent.
LoadReturnsFileContent ==
    loaded # <<>> =>
        loaded[1] = (IF Exists(insights_file)
                     THEN Some(ReadJson(insights_file)) ELSE None)

-----------------------------------------------------------------------------
(* agent.py: the loop of watch_and_respond over the lines of the stream.    *)
(* A phone number is a sequence of pieces: "+", the punctuation the code    *)
(* removes, and blocks of digits with their length.                         *)

MaxLines == 3

Piece(s, n) == [s |-> s, n |-> n]
PLUS == Piece("+", 1)
DASH == Piece("-", 1)
SPACE == Piece(" ", 1)
ONE == Piece("1", 1)
DANIEL10 == Piece("2135689314", 10)
OTHER10 == Piece("8455320691", 10)

\* DANIEL_PHONE = "+12135689314"
DANIEL_PHONE == <<PLUS, ONE, DANIEL10>>

\* sender.replace("-", "").replace(" ", "").replace("(", "").replace(")", "")
Removed(p) == p.s \in {"-", " ", "(", ")"}
Kept(p) == ~Removed(p)
RemovePunctuation(sender) == SelectSeq(sender, Kept)

RECURSIVE StrLen(_)
StrLen(str) == IF str = <<>> THEN 0 ELSE Head(str).n + StrLen(Tail(str))

StartsWithPlus(str) == str # <<>> /\ Head(str) = PLUS

\* if not normalized_sender.startswith("+"): "+1" + it if it has 10
\* characters, "+" + it otherwise
NormalizeSender(sender) ==
    LET n == RemovePunctuation(sender)
    IN  IF StartsWithPlus(n) THEN n
        ELSE IF StrLen(n) = 10 THEN <<PLUS, ONE>> \o n
        ELSE <<PLUS>> \o n

\* A faulty Skipped: the test of is_from_me left out.
SkippedButForOwn(msg) ==
    \/ msg.text = ""
    \/ NormalizeSender(msg.sender) # DANIEL_PHONE

\* The tests that end the turn of a parsed message with "continue"
Skipped(msg) ==
    \/ msg.is_from_me
    \/ msg.text = ""
    \/ NormalizeSender(msg.sender) # DANIEL_PHONE

\* The lines of the stream: a blank line, a line that is not JSON, a JSON
\* value that is not an object, and the messages
Senders ==
    { <<PLUS, ONE, SPACE, DANIEL10>>, <<DANIEL10>>, <<ONE, DASH, DANIEL10>>,
      <<OTHER10>> }
Texts == {"", "hi"}
Line(kind, own, sender, text) ==
    [kind |-> kind, is_from_me |-> own, sender |-> sender, text |-> text]
Lines ==
    { Line(k, FALSE, <<>>, "") : k \in {"blank", "not_json", "not_object"} }
    \cup { Line("message", own, s, t) : own \in BOOLEAN, s \in Senders, t \in Texts }

InitWatch ==
    /\ pc = "watching"
    /\ \E n \in 1..MaxLines : \E ls \in [1..n -> Lines] : stream = ls
    /\ line_no = 0
    /\ sent = <<>>
    /\ outcome = <<>>
    /\ StrainIdle /\ ClassifyIdle /\ ReadinessIdle /\ SleepIdle /\ SessionIdle
       /\ TrendIdle /\ PatternIdle /\ ActivityIdle /\ AnalystIdle
       /\ PipelineIdle /\ StripIdle /\ CircadianIdle /\ InsightsIdle
       /\ ChatIdle /\ ExerciseIdle /\ AlertsIdle

NextLine == stream[line_no + 1]
Taking == pc = "watching" /\ line_no < Len(stream)

\* A blank line, a line json.loads rejects, or a message one of the tests
\* skips: continue
SkipLine ==
    /\ Taking
    /\ \/ NextLine.kind \in {"blank", "not_json"}
       \/ NextLine.kind = "message" /\ Skipped(NextLine)
    /\ line_no' = line_no + 1
    /\ outcome' = Append(outcome, "skipped")
    /\ UNCHANGED <<pc, stream, sent, NotWatch>>

\* A JSON value without get (a list, a number): msg.get raises outside the
\* try and the loop ends
RaiseOnNonObject ==
    /\ Taking
    /\ NextLine.kind = "not_object"
    /\ line_no' = line_no + 1
    /\ outcome' = Append(outcome, "raised")
    /\ pc' = "failed"
    /\ UNCHANGED <<stream, sent, NotWatch>>

\* The message is answered: get_response returns and send_imessage is
\* called, whether imsg accepts the reply or fails in a way send_imessage
\* reports; or get_response raises and the except clause prints the error
AnswerLine ==
    /\ Taking
    /\ NextLine.kind = "message" /\ ~Skipped(NextLine)
    /\ line_no' = line_no + 1
    /\ \/ /\ sent' = Append(sent, [line |-> line_no + 1, to |-> NextLine.sender])
          /\ outcome' = Append(outcome, "replied")
       \/ /\ sent' = sent
          /\ outcome' = Append(outcome, "error")
    /\ UNCHANGED <<pc, stream, NotWatch>>

\* The stream ends and the loop with it
EndOfStream ==
    /\ pc = "watching" /\ line_no = Len(stream)
    /\ pc' = "done"
    /\ UNCHANGED <<stream, line_no, sent, outcome, NotWatch>>

NextWatch ==
    \/ SkipLine
    \/ RaiseOnNonObject
    \/ AnswerLine
    \/ EndOfStream

SpecWatch == InitWatch /\ [][NextWatch]_vars

\* The digits of a sender are those of the designated number, with or
\* without the country code
FromDaniel(sender) ==
    RemovePunctuation(sender) \in
        {<<PLUS, ONE, DANIEL10>>, <<ONE, DANIEL10>>, <<DANIEL10>>}

\* C22: no reply answers a message flagged is_from_me; every reply answers
\* a message with text from the designated number; a message gets at most
\* one reply; and an exception while answering does not end the loop.
RepliesOnlyToDaniel ==
    /\ \A k \in 1..Len(sent) :
           LET msg == stream[sent[k].line]
           IN  /\ msg.kind = "message"
               /\ ~msg.is_from_me
               /\ msg.text # ""
               /\ FromDaniel(msg.sender)
    /\ \A j, k \in 1..Len(sent) : sent[j].line = sent[k].line => j = k
    /\ (outcome # <<>> /\ outcome[Len(outcome)] = "error") => pc # "failed"

\* A message of the agent's own from the designated number was skipped, an
\* answer failed and a later message was answered
ErrorThenReply ==
    /\ Len(outcome) = 3
    /\ stream[1].kind = "message" /\ stream[1].is_from_me
    /\ stream[1].text # "" /\ FromDaniel(stream[1].sender)
    /\ outcome[2] = "error" /\ outcome[3] = "replied"

-----------------------------------------------------------------------------
(* brain.py and database.py: get_response over the tables messages and      *)
(* user_profiles.  The calls come one at a time from the loop of agent.py.  *)
(* A content is a number; the rows stored before the first call hold the    *)
(* contents 1, 2, ... in the order they were stored, one timestamp each.    *)

MaxStored == 52
MaxCalls == 2
HistoryLimit == 50

Phones == {"a", "b"}
Row(phone, role, content) ==
    [user_phone |-> phone, role |-> role, content |-> content]
Message(row) == [role |-> row.role, content |-> row.content]

\* save_message: INSERT INTO messages
save_message(table, phone, role, content) ==
    Append(table, Row(phone, role, content))

\* SELECT ... WHERE user_phone = ?, in the order of the timestamps
RowsOf(table, phone) == SelectSeq(table, LAMBDA r : r.user_phone = phone)

\* The last rows of a selection, at most limit of them
LastRows(rows, limit) ==
    IF Len(rows) <= limit THEN rows
    ELSE SubSeq(rows, Len(rows) - limit + 1, Len(rows))

\* ORDER BY timestamp ASC LIMIT ?: the first rows
FirstRows(rows, limit) ==
    IF Len(rows) <= limit THEN rows ELSE SubSeq(rows, 1, limit)

get_conversation_history(table, phone, limit) ==
    LET rows == FirstRows(RowsOf(table, phone), limit)
    IN  [i \in 1..Len(rows) |-> Message(rows[i])]

\* if not messages or messages[-1]["content"] != user_message: append
MessagesFor(history, user_message) ==
    IF history = <<>> \/ history[Len(history)].content # user_message
    THEN Append(history, [role |-> "user", content |-> user_message])
    ELSE history

\* A faulty reply row: the reply is not stored.
NoReplyRow(table, phone, content) == table

\* save_message(phone, "assistant", assistant_message)
ReplyRow(table, phone, content) ==
    save_message(table, phone, "assistant", content)

\* The conversation of phone "a" stored by earlier runs: user and assistant
\* rows in turn
Stored(n) ==
    [k \in 1..n |-> Row("a", IF k % 2 = 1 THEN "user" ELSE "assistant", k)]
UserTexts == {0, HistoryLimit}
Replies == {-1, -2}

InitChat ==
    /\ pc = "idle"
    /\ \E n \in 0..MaxStored : db_messages = Stored(n)
    /\ db_profiles \in {{}, {"a"}}
    /\ call = <<>>
    /\ n_calls = 0
    /\ StrainIdle /\ ClassifyIdle /\ ReadinessIdle /\ SleepIdle /\ SessionIdle
       /\ TrendIdle /\ PatternIdle /\ ActivityIdle /\ AnalystIdle
       /\ PipelineIdle /\ StripIdle /\ CircadianIdle /\ InsightsIdle
       /\ WatchIdle /\ ExerciseIdle /\ AlertsIdle

\* get_response(phone, user_message): save_message(phone, "user", ..)
SaveUserMessage ==
    /\ pc \in {"idle", "returned", "raised"}
    /\ n_calls < MaxCalls
    /\ n_calls' = n_calls + 1
    /\ \E phone \in Phones, text \in UserTexts :
           /\ call' = Some([phone |-> phone, user_message |-> text,
                            before |-> RowsOf(db_messages, phone),
                            messages |-> None, reply |-> None])
           /\ db_messages' = save_message(db_messages, phone, "user", text)
    /\ pc' = "saved"
    /\ UNCHANGED <<db_profiles, NotChat>>

\* _build_profile_context: get_or_create_profile inserts the row if there
\* is none; the history of up to 50 messages is read and the current
\* message added if the history does not end with its content
BuildMessages ==
    /\ pc = "saved"
    /\ db_profiles' = db_profiles \cup {call[1].phone}
    /\ call' = Some([call[1] EXCEPT !.messages =
           Some(MessagesFor(get_conversation_history(db_messages,
                                call[1].phone, HistoryLimit),
                            call[1].user_message))])
    /\ pc' = "built"
    /\ UNCHANGED <<db_messages, n_calls, NotChat>>

\* client.messages.create returns, the reply is saved and returned; or it
\* raises and get_response ends with the exception
CallModel ==
    /\ pc = "built"
    /\ \/ /\ \E reply \in Replies :
                 /\ call' = Some([call[1] EXCEPT !.reply = Some(reply)])
                 /\ db_messages' = ReplyRow(db_messages, call[1].phone, reply)
          /\ pc' = "returned"
       \/ /\ pc' = "raised"
          /\ UNCHANGED <<call, db_messages>>
    /\ UNCHANGED <<db_profiles, n_calls, NotChat>>

NextChat ==
    \/ SaveUserMessage
    \/ BuildMessages
    \/ CallModel

SpecChat == InitChat /\ [][NextChat]_vars

\* C23: after a get_response call that returns, the stored history of the
\* phone is the history before the call, then the user's text with the role
\* user, then the reply with the role assistant: at least two messages; and
\* the phone has a profile row.
HistoryGrowsByExchange ==
    pc = "returned" =>
        /\ RowsOf(db_messages, call[1].phone) =
               call[1].before
               \o <<Row(call[1].phone, "user", call[1].user_message),
                    Row(call[1].phone, "assistant", call[1].reply[1])>>
        /\ Len(RowsOf(db_messages, call[1].phone)) >= 2
        /\ call[1].phone \in db_profiles

\* The first exchange of a phone without history or profile has returned
FirstExchangeReturned ==
    /\ pc = "returned"
    /\ call[1].before = <<>>
    /\ call[1].phone = "b"
    /\ n_calls = 1

\* The most recent messages of a conversation, at most limit of them
MostRecent(rows, limit) ==
    LET recent == LastRows(rows, limit)
    IN  [i \in 1..Len(recent) |-> Message(recent[i])]

\* C27: the messages sent to the model are the most recent messages of the
\* phone's conversation, at most 50, in the order stored, and end with the
\* current user message.
ModelGetsMostRecent ==
    (pc \in {"built", "returned", "raised"} /\ call[1].messages # None) =>
        LET sent_messages == call[1].messages[1]
            rows == RowsOf(db_messages, call[1].phone)
            stored == IF pc = "returned"
                      THEN SubSeq(rows, 1, Len(rows) - 1) ELSE rows
        IN  /\ sent_messages = MostRecent(stored, HistoryLimit)
            /\ sent_messages[Len(sent_messages)] =
                   [role |-> "user", content |-> call[1].user_message]

-----------------------------------------------------------------------------
(* sleep_sessions.py: analyse_sleep_sessions from the session log to the    *)
(* sleep debt: the sessions are classified, the primary ones selected and   *)
(* the debt analysed on them.                                               *)

NotSessionDebt ==
    <<StrainVars, ClassifyVars, ReadinessVars, SleepVars, PatternVars,
      ActivityVars, AnalystVars, PipelineVars, StripVars, CircadianVars,
      InsightsVars, WatchVars, ChatVars, ExerciseVars, AlertsVars>>
NotExercise ==
    <<StrainVars, ClassifyVars, ReadinessVars, SleepVars, SessionVars,
      TrendVars, PatternVars, ActivityVars, AnalystVars, PipelineVars,
      StripVars, CircadianVars, InsightsVars, WatchVars, ChatVars,
      AlertsVars>>
NotAlerts ==
    <<StrainVars, ClassifyVars, ReadinessVars, SleepVars, SessionVars,
      TrendVars, PatternVars, ActivityVars, AnalystVars, PipelineVars,
      StripVars, CircadianVars, InsightsVars, WatchVars, ChatVars,
      ExerciseVars>>

\* df[df["session_type"] == "primary"]
PrimaryRows(df, types) ==
    LET keep == SelectSeq([i \in 1..Len(df) |-> i],
                          LAMBDA i : types[i] = "primary")
    IN  [k \in 1..Len(keep) |-> df[keep[k]]]

\* The rows of the log, in the order of sleep_start ingest.py sorts them
\* in: a night or a nap, short or long, with a debt reading of none, some
\* or 100 minutes, or without one
LogDates == {1, 2}
LogStartHours == {12, 22}
LogSleepTimes == {90, 400}
LogDebts == {0, 100}
LogRows ==
    [ night_date : LogDates, sleep_start_hour : LogStartHours,
      total_sleep_time_min : LogSleepTimes, sleep_debt_min : Optional(LogDebts) ]

InitSessionDebt ==
    /\ pc = "start"
    /\ \E n \in 0..MaxSessions : \E df \in [1..n -> LogRows] :
           /\ \A i \in 1..(n - 1) :
                  \/ df[i].night_date < df[i + 1].night_date
                  \/ /\ df[i].night_date = df[i + 1].night_date
                     /\ df[i].sleep_start_hour <= df[i + 1].sleep_start_hour
           /\ sleep_df = df
    /\ session_type = <<>>
    /\ primary_df = <<>> /\ sleep_debt = <<>> /\ recovery = <<>>
    /\ StrainIdle /\ ClassifyIdle /\ ReadinessIdle /\ SleepIdle
       /\ PatternIdle /\ ActivityIdle /\ AnalystIdle /\ PipelineIdle
       /\ StripIdle /\ CircadianIdle /\ InsightsIdle /\ WatchIdle /\ ChatIdle
       /\ ExerciseIdle /\ AlertsIdle

\* analyse_sleep_sessions: session_type, primary_df, debt
AnalyseLogDebt ==
    /\ pc = "start"
    /\ pc' = "done"
    /\ session_type' = _classify_session_type(sleep_df)
    /\ primary_df' = PrimaryRows(sleep_df, _classify_session_type(sleep_df))
    /\ sleep_debt' =
           <<_analyse_sleep_debt(
                 PrimaryRows(sleep_df, _classify_session_type(sleep_df)))>>
    /\ UNCHANGED <<sleep_df, recovery, NotSessionDebt>>

NextSessionDebt == AnalyseLogDebt

SpecSessionDebt == InitSessionDebt /\ [][NextSessionDebt]_vars

\* The debt readings of the sessions of the log that pass a test, oldest
\* first
ReadingsOf(Test(_)) ==
    LET rows == SelectSeq([i \in 1..Len(sleep_df) |-> i],
                    LAMBDA i : Test(i) /\ sleep_df[i].sleep_debt_min # None)
    IN  [k \in 1..Len(rows) |-> sleep_df[rows[k]].sleep_debt_min[1]]
AnySession(i) == TRUE
PrimarySession(i) == session_type[i] = "primary"

\* The debt reported is the last of the readings; the nights to repay are
\* within the margin (in tenths of a night) of four times the debt-hours,
\* and 0 for a debt that is not positive
DebtReported(readings, margin) ==
    IF readings = <<>> THEN sleep_debt[1].current_debt_min = None
    ELSE LET debt == sleep_debt[1] IN
         /\ debt.current_debt_min = Some(readings[Len(readings)])
         /\ debt.current_debt_hours[1] > 0 =>
                LET d == debt.nights_to_repay[1] * 10
                         - debt.current_debt_hours[1] * _DEBT_REPAY_RATE
                IN  -margin <= d /\ d <= margin
         /\ debt.current_debt_hours[1] <= 0 => debt.nights_to_repay[1] = 0

\* C24 as stated: the current debt is the reading of the most recent session
\* of the log that carries one, and nights_to_repay is exactly four times
\* the debt-hours (0 when the debt is not positive).
DebtOfLatestSessionTimesFour ==
    pc = "done" => DebtReported(ReadingsOf(AnySession), 0)

\* C24: the current debt is the reading of the most recent primary session
\* that carries one, and nights_to_repay is four times the debt-hours
\* rounded to the nearest whole number (0 when the debt is not positive).
DebtOfLatestPrimaryRounded ==
    pc = "done" => DebtReported(ReadingsOf(PrimarySession), 4)

\* The last session with a reading is a nap without debt after a primary
\* night with 100 minutes: 1.7 hours and 7 nights are reported.
NapAfterNightInDebt ==
    /\ pc = "done"
    /\ Len(sleep_df) = 2
    /\ session_type = <<"primary", "nap">>
    /\ sleep_df[1].sleep_debt_min = Some(100)
    /\ sleep_df[2].sleep_debt_min = Some(0)
    /\ sleep_debt[1].current_debt_min = Some(100)
    /\ sleep_debt[1].current_debt_hours = Some(17)
    /\ sleep_debt[1].nights_to_repay = Some(7)

-----------------------------------------------------------------------------
(* activity.py: _detect_exercise_sessions on the epochs worn.  The frame    *)
(* keeps the row labels of the sensor frame: an epoch's position is its     *)
(* row in the frame ingest.py sorted by time.                               *)

MaxExerciseEpochs == 7

\* mask = (df[hr_col] > 100) & (df["acc_energy"] > _MODERATE_ENERGY)
Qualifies(row) ==
    /\ row.heart_rate_mean # None
    /\ row.heart_rate_mean[1] > 100
    /\ row.acc_energy > _MODERATE_ENERGY

\* wear = df[df["wear_mode"] == "wear_on"]; exercise_epochs.index.values:
\* the labels of the worn rows under the mask, ascending
ExerciseIndex(df) ==
    SelectSeq([i \in 1..Len(df) |-> i],
              LAMBDA i : df[i].wear_mode = "wear_on" /\ Qualifies(df[i]))

\* np.split(idx_arr, np.where(np.diff(idx_arr) > 2)[0] + 1)
RECURSIVE SplitGroups(_)
SplitGroups(idx_arr) ==
    IF Len(idx_arr) <= 1 THEN <<idx_arr>>
    ELSE LET rest == SplitGroups(Tail(idx_arr))
         IN  IF idx_arr[2] - idx_arr[1] > 2
             THEN <<<<Head(idx_arr)>>>> \o rest
             ELSE <<<<Head(idx_arr)>> \o Head(rest)>> \o Tail(rest)

\* A faulty TooShort: the positions from the first to the last are counted.
TooShortBySpan(group) == group[Len(group)] - group[1] + 1 < 4

\* if len(group) < 4: continue
TooShort(group) == Len(group) < 4

_detect_exercise_sessions(df) ==
    IF ExerciseIndex(df) = <<>> THEN <<>>
    ELSE LET groups == SelectSeq(SplitGroups(ExerciseIndex(df)),
                                 LAMBDA g : ~TooShort(g))
         IN  [k \in 1..Len(groups) |->
                 [start |-> groups[k][1],
                  end |-> groups[k][Len(groups[k])],
                  epochs |-> Len(groups[k])]]

\* The epochs of the sensor frame: not worn; worn with the heart rate and
\* the energy above the thresholds, or with one of them at its threshold
SensorEpochs ==
    { [wear_mode |-> "wear_off", heart_rate_mean |-> None, acc_energy |-> 0],
      [wear_mode |-> "wear_on", heart_rate_mean |-> Some(101),
       acc_energy |-> _MODERATE_ENERGY + 1],
      [wear_mode |-> "wear_on", heart_rate_mean |-> Some(100),
       acc_energy |-> _MODERATE_ENERGY + 1],
      [wear_mode |-> "wear_on", heart_rate_mean |-> Some(101),
       acc_energy |-> _MODERATE_ENERGY] }

InitExercise ==
    /\ pc = "start"
    /\ \E n \in 0..MaxExerciseEpochs : \E df \in [1..n -> SensorEpochs] :
           activity_df = df
    /\ activity_level = <<>>
    /\ exercise_sessions = <<>>
    /\ StrainIdle /\ ClassifyIdle /\ ReadinessIdle /\ SleepIdle /\ SessionIdle
       /\ TrendIdle /\ PatternIdle /\ AnalystIdle /\ PipelineIdle
       /\ StripIdle /\ CircadianIdle /\ InsightsIdle /\ WatchIdle /\ ChatIdle
       /\ AlertsIdle

\* analyse_activity: sessions = _detect_exercise_sessions(wear, hr_col)
DetectExerciseSessions ==
    /\ pc = "start"
    /\ pc' = "done"
    /\ exercise_sessions' = Some(_detect_exercise_sessions(activity_df))
    /\ UNCHANGED NotExercise

NextExercise == DetectExerciseSessions

SpecExercise == InitExercise /\ [][NextExercise]_vars

\* The qualifying epochs, and the maximal clusters of them in which
\* neighbours are at most 2 positions apart, as pairs of first and last
QualifyingEpochs ==
    {i \in 1..Len(activity_df) :
        /\ activity_df[i].wear_mode = "wear_on"
        /\ activity_df[i].heart_rate_mean # None
        /\ activity_df[i].heart_rate_mean[1] > 100
        /\ activity_df[i].acc_energy > 600}
ClusterStarts ==
    {i \in QualifyingEpochs : \A q \in QualifyingEpochs : ~(i - 2 <= q /\ q < i)}
ClusterEnds ==
    {i \in QualifyingEpochs : \A q \in QualifyingEpochs : ~(i < q /\ q <= i + 2)}
Clusters ==
    { <<s, e>> \in ClusterStarts \X ClusterEnds :
        /\ s <= e
        /\ \A e2 \in ClusterEnds : s <= e2 => e <= e2 }
Reported ==
    { <<exercise_sessions[1][k].start, exercise_sessions[1][k].end>> :
        k \in 1..Len(exercise_sessions[1]) }
OneSessionEach ==
    \A j, k \in 1..Len(exercise_sessions[1]) :
        j < k => exercise_sessions[1][j].end < exercise_sessions[1][k].start

\* C25 as stated: one session is reported for each maximal cluster that
\* spans at least 4 epoch positions, from its first to its last qualifying
\* epoch, and none for the others.
SessionsAreClustersSpanningFour ==
    pc = "done" =>
        /\ Reported = {c \in Clusters : c[2] - c[1] + 1 >= 4}
        /\ OneSessionEach

\* C25: one session is reported for each maximal cluster that holds at
\* least 4 qualifying epochs, from its first to its last qualifying epoch,
\* and none for the others.
SessionsAreClustersOfFour ==
    pc = "done" =>
        /\ Reported =
               {c \in Clusters :
                   Cardinality({q \in QualifyingEpochs : c[1] <= q /\ q <= c[2]}) >= 4}
        /\ OneSessionEach

\* Qualifying epochs at the positions 1, 3, 5 and 7: one cluster of four
\* epochs spanning seven positions, reported from 1 to 7.
GappedClusterReported ==
    /\ pc = "done"
    /\ QualifyingEpochs = {1, 3, 5, 7}
    /\ exercise_sessions[1] = <<[start |-> 1, end |-> 7, epochs |-> 4]>>

-----------------------------------------------------------------------------
(* agent_payload.py: _build_alerts.  Hours of debt are in tenths.           *)

\* _SEVERITY_ORDER.get(a["severity"], 9)
_SEVERITY_ORDER(severity) ==
    CASE severity = "critical" -> 0
      [] severity = "warning" -> 1
      [] severity = "info" -> 2
      [] OTHER -> 9

Alert(id, severity) == [id |-> id, severity |-> severity]

\* The rules in the order of the code: each appends its alert if it fires
RuleAlerts(in) ==
    (IF in.zone \in {Some("red"), Some("yellow")}
        /\ in.days_since_green_zone # None /\ in.days_since_green_zone[1] >= 3
     THEN <<Alert("CHRONIC_UNDERRECOVERY",
                  IF in.zone = Some("red") THEN "critical" ELSE "warning")>>
     ELSE <<>>)
    \o (IF in.current_debt_hours # None /\ in.current_debt_hours[1] > 15
        THEN <<Alert("SLEEP_DEBT_ACCUMULATING",
                     IF in.current_debt_hours[1] > 40 THEN "critical"
                     ELSE "warning")>>
        ELSE <<>>)
    \o (IF in.overreach >= 2 THEN <<Alert("OVERREACH_STREAK", "warning")>>
        ELSE <<>>)
    \o (IF in.avg_rem_pct # None /\ in.avg_rem_pct[1] < 18
        THEN <<Alert("REM_DEFICIT", "warning")>> ELSE <<>>)
    \o (IF in.avg_deep_pct # None /\ in.avg_deep_pct[1] < 15
        THEN <<Alert("DEEP_SLEEP_DEFICIT", "warning")>> ELSE <<>>)
    \o (IF in.bedtime_variance_min # None /\ in.bedtime_variance_min[1] > 45
        THEN <<Alert("CIRCADIAN_DRIFT", "info")>> ELSE <<>>)
    \o (IF in.days_rest # None /\ in.days_rest[1] >= 7
        THEN <<Alert("REST_DAY_OVERDUE", "info")>> ELSE <<>>)

\* list.sort(key=...): a stable sort, here by insertion of each alert
\* behind the alerts whose key is not greater
RECURSIVE InsertByKey(_, _)
InsertByKey(sorted, a) ==
    IF sorted = <<>> THEN <<a>>
    ELSE IF _SEVERITY_ORDER(Head(sorted).severity) <= _SEVERITY_ORDER(a.severity)
    THEN <<Head(sorted)>> \o InsertByKey(Tail(sorted), a)
    ELSE <<a>> \o sorted
RECURSIVE SortBySeverity(_)
SortBySeverity(list) ==
    IF list = <<>> THEN <<>>
    ELSE InsertByKey(SortBySeverity(SubSeq(list, 1, Len(list) - 1)),
                     list[Len(list)])

\* A faulty _build_alerts: the list is returned in the order of the rules.
build_alerts_unsorted(in) == RuleAlerts(in)

_build_alerts(in) == SortBySeverity(RuleAlerts(in))

\* What the rules read, on both sides of each threshold
AlertInputs ==
    [ zone : Optional({"red", "yellow", "green"}),
      days_since_green_zone : Optional({2, 3}),
      current_debt_hours : Optional({15, 16, 41}),
      overreach : {1, 2},
      avg_rem_pct : Optional({17, 18}),
      avg_deep_pct : Optional({14, 15}),
      bedtime_variance_min : Optional({45, 46}),
      days_rest : Optional({6, 7}) ]

InitAlerts ==
    /\ pc = "start"
    /\ \E in \in AlertInputs : alert_inputs = Some(in)
    /\ built_alerts = <<>>
    /\ StrainIdle /\ ClassifyIdle /\ ReadinessIdle /\ SleepIdle /\ SessionIdle
       /\ TrendIdle /\ PatternIdle /\ ActivityIdle /\ AnalystIdle
       /\ PipelineIdle /\ StripIdle /\ CircadianIdle /\ InsightsIdle
       /\ WatchIdle /\ ChatIdle /\ ExerciseIdle

\* build_agent_payload: "alerts": _build_alerts(full_packet, results)
BuildAlerts ==
    /\ pc = "start"
    /\ pc' = "done"
    /\ built_alerts' = Some(_build_alerts(alert_inputs[1]))
    /\ UNCHANGED <<alert_inputs, NotAlerts>>

NextAlerts == BuildAlerts

SpecAlerts == InitAlerts /\ [][NextAlerts]_vars

\* The fixed order of the rules
RuleOrder ==
    <<"CHRONIC_UNDERRECOVERY", "SLEEP_DEBT_ACCUMULATING", "OVERREACH_STREAK",
      "REM_DEFICIT", "DEEP_SLEEP_DEFICIT", "CIRCADIAN_DRIFT", "REST_DAY_OVERDUE">>
RuleIndex(id) == CHOOSE i \in 1..Len(RuleOrder) : RuleOrder[i] = id
Rank(severity) ==
    IF severity = "critical" THEN 1 ELSE IF severity = "warning" THEN 2 ELSE 3

\* C26: in the list of _build_alerts every critical alert precedes every
\* warning alert, which precedes every info alert; alerts of equal severity
\* are in the order of the rules; and no alert id appears twice.
AlertsRankedBySeverity ==
    pc = "done" =>
        \A j, k \in 1..Len(built_alerts[1]) :
            j < k =>
                /\ built_alerts[1][j].severity \in {"critical", "warning", "info"}
                /\ built_alerts[1][k].severity \in {"critical", "warning", "info"}
                /\ Rank(built_alerts[1][j].severity)
                       <= Rank(built_alerts[1][k].severity)
                /\ built_alerts[1][j].severity = built_alerts[1][k].severity
                       => RuleIndex(built_alerts[1][j].id) < RuleIndex(built_alerts[1][k].id)
                /\ built_alerts[1][j].id # built_alerts[1][k].id

\* Every rule fires, the first as a warning and the second as critical: the
\* debt alert moves to the front and the others keep the order of the rules.
CriticalDebtMovesFirst ==
    /\ pc = "done"
    /\ Len(built_alerts[1]) = 7
    /\ built_alerts[1][1] = Alert("SLEEP_DEBT_ACCUMULATING", "critical")
    /\ built_alerts[1][2] = Alert("CHRONIC_UNDERRECOVERY", "warning")
    /\ built_alerts[1][7] = Alert("REST_DAY_OVERDUE", "info")

-----------------------------------------------------------------------------
(* readiness.py, context_packet.py: latest_day and task_matching of the     *)
(* packet.  A row of the task matrix is the set of the tasks it allows.     *)

\* _TASK_MATRIX.get(tier, {})
_TASK_MATRIX(tier_name) ==
    CASE tier_name \in {"Peak", "Good"} ->
             {"deep_analytical_work", "creative_brainstorming",
              "high_stakes_presentation", "routine_admin", "physical_training"}
      [] tier_name = "Moderate" ->
             {"creative_brainstorming", "routine_admin", "physical_training"}
      [] tier_name = "Low" -> {"routine_admin"}
      [] OTHER -> {}

\* latest_day = daily_summaries[-1] if daily_summaries else None
LatestDay(summaries) ==
    IF summaries = <<>> THEN None ELSE Some(summaries[Len(summaries)])

\* task_matching = latest_tier.get("task_suitability", {}) if latest_tier
\* else {}, of results.get("readiness", {}).get("latest_tier", {})
TaskMatching(rd) ==
    IF rd = <<>> \/ rd[1].latest_tier = None THEN {}
    ELSE _TASK_MATRIX(rd[1].latest_tier[1].tier)

\* C29: when latest_day exists and task_matching is not empty, task_matching
\* is the row of the tier latest_day shows, and the tier it is taken from is
\* the tier of latest_day's date.
TaskMatchingIsOfLatestDay ==
    (pc = "done" /\ LatestDay(daily_summaries) # None
        /\ TaskMatching(readiness) # {}) =>
        LET day == LatestDay(daily_summaries)[1]
            daily_ready == performance[1].daily_ready
        IN  /\ daily_ready[Len(daily_ready)].date = day.date
            /\ readiness[1].latest_tier[1].tier = day.readiness_tier
            /\ TaskMatching(readiness) = _TASK_MATRIX(day.readiness_tier)


\* ------------------------------------------------------------------
\* agent_payload.py: the agent state's regime and strain ceiling
\* ------------------------------------------------------------------

\* The longest run of overreach days considered
MaxOverreach == 5

\* agent_payload.py: max(8, 14 - 2n) on yellow, max(10, 18 - 2n) otherwise
_strain_ceiling(zone, overreach_count) ==
    IF zone = Some("red") THEN 8
    ELSE IF zone = Some("yellow") THEN Max(8, 14 - overreach_count * 2)
    ELSE Max(10, 18 - overreach_count * 2)

\* recovery.get("zone") of the packet main has built
ZoneOfPacket ==
    IF packet # None /\ packet[1].recovery # None
    THEN Some(packet[1].recovery[1].zone) ELSE None

\* C30: the agent state reports a green regime only if the latest recovery
\* zone is green; when the zone is absent the regime is not green, and no
\* run of overreach days gets the strain ceiling a green zone would get
\* (the deep-work capacity is derived from that ceiling).
GreenRegimeOnlyOnGreenZone ==
    (payload # None /\ ZoneOfPacket # Some("green")) =>
        /\ payload[1].agent_state_readiness_regime # Some("green")
        /\ ZoneOfPacket = None =>
              \A n \in 0..MaxOverreach :
                  _strain_ceiling(ZoneOfPacket, n) # _strain_ceiling(Some("green"), n)

=============================================================================
